---------------------------- MODULE Spec2Model ----------------------------
(***************************************************************************)
(* Verification model of sora-bot: the account pool (utils/db.py,          *)
(* utils/accounts.py), the protocol client's generation run                *)
(* (utils/sora_client.py) and the persistent job queue                     *)
(* (utils/generation_queue.py).                                            *)
(*                                                                         *)
(* The specifications share the store:                                     *)
(*   PoolSpec      the account pool under arbitrary concurrent callers     *)
(*   Spec          the job queue, its job tasks and the process life cycle *)
(*   LiveSpec      Spec for a queue of one worker, with fair scheduling    *)
(*   CrashSpec     Spec with the process dying inside a creation request   *)
(*   NotifySpec    Spec with the result messages of job 1 recorded         *)
(*   StopSpec      Spec with shutdown() taken step by step                 *)
(*   AccountsSpec  add_account called with arbitrary cookie files          *)
(*   RunSpec       one generation run, every event of it consumed          *)
(*   RunLiveSpec   RunSpec with a generator that keeps taking steps        *)
(*   WaitSpec      one job task and the progress message it edits          *)
(*   TokenSpec     concurrent calls on one client session                  *)
(*   EndSpec       WaitSpec with the failure handler's outcomes            *)
(*   ClassifySpec  RunSpec with the feed items of each cycle recorded      *)
(*   CanonSpec     a cookie export edited and canonicalized                *)
(***************************************************************************)
EXTENDS Integers, Sequences, FiniteSets, TLC

(***************************************************************************)
(* Program constants                                                       *)
(***************************************************************************)
\* utils/accounts.py: DAILY_LIMIT = 100
DAILY_LIMIT == 100
\* utils/accounts.py: CONCURRENCY_LIMIT = 5
CONCURRENCY_LIMIT == 5

(***************************************************************************)
(* Bounds of the model                                                     *)
(***************************************************************************)
\* rows of the accounts table in PoolSpec
NumAccounts == 2
\* concurrent pick_account_for_generation calls in PoolSpec
NumPickers == 2
\* UTC dates the clock runs through
MaxDay == 2
\* how many increments of daily_generations the model follows from a
\* counter's starting point (0 after a reset, DAILY_LIMIT - 1 in a used store)
MaxOver == 2

\* rows the generation_jobs table grows to
MaxJobs == 2
\* GenerationQueue(bot, max_workers=...): the largest worker limit a queue is built with
MaxWorkers == 2
\* rows of the accounts table in Spec
QueueAccounts == 1

\* cookies in an uploaded cookie file
MaxCookies == 2
\* rows the accounts table grows to in AccountsSpec
MaxStored == 2
\* identities the authentication probe reports
NumIdentities == 2
\* events of one generation run the model follows
MaxEvents == 7
\* RunSpec: the largest timeout_sec a caller passes, in poll intervals
MaxTimeout == 2
\* CrashSpec: per job, the creation requests whose answer the process did
\* not live to read
MaxLost == 1
\* TokenSpec: the concurrent calls on one client session, and the refresh
\* requests the model follows
MaxCallers == 2
MaxRefresh == 3

\* SQL NULL / Python None for ids, dates and timestamps
NULL == 0

VARIABLES
    accounts,   \* the accounts table: id -> row
    today,      \* the current UTC date (_today_utc_str)
    picker,     \* PoolSpec: each concurrent pick call's position and locals
    lastPick,   \* PoolSpec: what the pick call that returned last returned
    reserved,   \* PoolSpec: per account, successful picks not yet matched by
                \* a mark_generation_finished call
    exhausted,  \* PoolSpec: per account, whether mark_account_daily_exhausted
                \* has been called for it on the current UTC date
    jobs,       \* the generation_jobs table: id -> row
    proc,       \* the bot process: "down", "up" (queue started), "stopped"
    stopEvent,  \* GenerationQueue._stop_event
    wakeEvent,  \* GenerationQueue._wake_event
    inflight,   \* GenerationQueue._inflight: the job ids holding a task
    task,       \* per job id: where its _process_job task stands
    ntasks,     \* per job id: how many _process_job tasks are alive for it
    rel,        \* per job id: mark_generation_finished calls made for the
                \* job's latest reservation (counted up to 2)
    upstream,   \* per job id: creation requests upstream accepted
    max_workers, \* GenerationQueue.max_workers, fixed when the queue is built
    sent,       \* NotifySpec: per job id, the result messages delivered to
                \* the requester (recorded for job 1, and in NotifySpec only)
    credentials, \* the accounts table, columns cookies_json and account_key
    added,      \* AccountsSpec: how the last add_account call ended
    run,        \* RunSpec: the generator of one generation run
    events,     \* RunSpec: the events the generator has yielded, in order
    wait,       \* WaitSpec: one job task and the progress message it edits
    stop,       \* StopSpec: a shutdown() call under way: the job tasks its
                \* gather still waits for, and where the loop task stands
    session,    \* TokenSpec: one _AsyncBrowserSession and the calls on it
    export      \* CanonSpec: a cookie export, its edited copy, and the fallback
                \* account keys derived from the two

poolVars == <<picker, lastPick, reserved, exhausted>>
queueVars == <<jobs, proc, stopEvent, wakeEvent, inflight, task, ntasks, rel, upstream,
               max_workers, sent>>
adminVars == <<credentials, added>>
clientVars == <<run, events, wait, stop, session, export>>
vars == <<accounts, today, picker, lastPick, reserved, exhausted,
          jobs, proc, stopEvent, wakeEvent, inflight, task, ntasks, rel, upstream,
          max_workers, sent, credentials, added, run, events, wait, stop, session,
          export>>

AccountIds == 1..NumAccounts
Pickers == 1..NumPickers
JobIds == 1..MaxJobs

(***************************************************************************)
(* utils/db.py: the accounts table                                         *)
(***************************************************************************)
\* add_account_row: the row INSERTed for a new account
NewAccountRow ==
    [active_generations |-> 0, daily_generations |-> 0,
     last_used_at |-> NULL, last_used_date |-> NULL, disabled |-> FALSE]

\* last_used_at holds ISO timestamps that only ever get compared (ORDER BY).
\* The model keeps their order: a stamp is the rank of the timestamp among
\* the stored ones, NULL (never used) being 0.
MaxStamp(accts) ==
    LET S == {accts[a].last_used_at : a \in DOMAIN accts}
    IN  CHOOSE m \in S \cup {NULL} : \A s \in S : s <= m

RankStamps(accts) ==
    LET S == {accts[a].last_used_at : a \in DOMAIN accts} \ {NULL}
        Rank(s) == IF s = NULL THEN NULL ELSE Cardinality({t \in S : t <= s})
    IN  [a \in DOMAIN accts |->
            [accts[a] EXCEPT !.last_used_at = Rank(accts[a].last_used_at)]]

\* writing now_iso into last_used_at of row a
StampNow(accts, a) ==
    RankStamps([accts EXCEPT ![a].last_used_at = MaxStamp(accts) + 1])

\* reset_daily_where_needed, and the same UPDATE inside acquire
ResetDaily(accts, day) ==
    [a \in DOMAIN accts |->
        IF accts[a].last_used_date # NULL /\ accts[a].last_used_date # day
        THEN [accts[a] EXCEPT !.daily_generations = 0, !.last_used_date = day]
        ELSE accts[a]]

\* list_accounts_counts: <<total, available_daily, available_slots>>
ListAccountsCounts(accts) ==
    LET total == Cardinality(DOMAIN accts)
        daily == {a \in DOMAIN accts :
                    /\ ~accts[a].disabled
                    /\ accts[a].daily_generations < DAILY_LIMIT}
        slots == {a \in daily : accts[a].active_generations < CONCURRENCY_LIMIT}
    IN  <<total, Cardinality(daily), Cardinality(slots)>>

\* that WHERE clause without its active_generations term: a selection that
\* would not look at the load of a row
EligibleAnyLoad(accts, a) ==
    /\ ~accts[a].disabled
    /\ accts[a].daily_generations < DAILY_LIMIT

\* the WHERE clause of the candidate SELECT and of the guarded UPDATE
Eligible(accts, a) ==
    /\ ~accts[a].disabled
    /\ accts[a].daily_generations < DAILY_LIMIT
    /\ accts[a].active_generations < CONCURRENCY_LIMIT

\* the same SELECT with ORDER BY id ASC alone
BeforeById(accts, a, b) == a <= b

\* ORDER BY active_generations ASC, daily_generations ASC,
\*          last_used_at ASC NULLS FIRST, id ASC
Before(accts, a, b) ==
    LET x == accts[a]
        y == accts[b]
    IN  \/ x.active_generations < y.active_generations
        \/ /\ x.active_generations = y.active_generations
           /\ \/ x.daily_generations < y.daily_generations
              \/ /\ x.daily_generations = y.daily_generations
                 /\ \/ x.last_used_at < y.last_used_at
                    \/ /\ x.last_used_at = y.last_used_at
                       /\ a <= b

\* the candidate SELECT ... LIMIT 1: NULL when no row qualifies
SelectCandidate(accts) ==
    LET C == {a \in DOMAIN accts : Eligible(accts, a)}
    IN  IF C = {} THEN NULL
        ELSE CHOOSE a \in C : \A b \in C : Before(accts, a, b)

\* the guarded UPDATE of acquire: one more active generation on row a
ReserveRow(accts, a, day) ==
    IF a \in DOMAIN accts /\ Eligible(accts, a)
    THEN StampNow([accts EXCEPT ![a].active_generations = @ + 1,
                                ![a].last_used_date = day], a)
    ELSE accts

\* acquire_account_for_generation: one BEGIN IMMEDIATE transaction.
\* Returns the table after the transaction and the acquired id (or NULL).
AcquireAccount(accts, day) ==
    LET t1 == ResetDaily(accts, day)
        c  == SelectCandidate(t1)
        t2 == IF c = NULL THEN t1 ELSE ReserveRow(t1, c, day)
    IN  IF c = NULL \/ t2 = t1
        THEN [accts |-> t1, acc |-> NULL]
        ELSE [accts |-> t2, acc |-> c]

\* increment_daily_generation
IncrementDaily(accts, a, day) ==
    IF a \in DOMAIN accts
    THEN StampNow([accts EXCEPT ![a].daily_generations = @ + 1,
                                ![a].last_used_date = day], a)
    ELSE accts

\* a decrement without the CASE that stops at 0
DecrementUnguarded(accts, a) ==
    IF a \in DOMAIN accts
    THEN [accts EXCEPT ![a].active_generations = @ - 1]
    ELSE accts

\* decrement_active_generation
DecrementActive(accts, a) ==
    IF a \in DOMAIN accts
    THEN [accts EXCEPT ![a].active_generations = IF @ > 0 THEN @ - 1 ELSE 0]
    ELSE accts

\* set_daily_generations with today_str and now_iso given
SetDaily(accts, a, value, day) ==
    IF a \in DOMAIN accts
    THEN StampNow([accts EXCEPT ![a].daily_generations = value,
                                ![a].last_used_date = day], a)
    ELSE accts

(***************************************************************************)
(* utils/accounts.py                                                       *)
(***************************************************************************)
\* the early returns in another order: the free-slot test before the daily test
PickRefusalSlotsFirst(counts) ==
    IF counts[1] = 0 THEN "no_accounts"
    ELSE IF counts[3] = 0 THEN "no_active_slots"
    ELSE IF counts[2] = 0 THEN "daily_limit_all"
    ELSE ""

\* the early returns of pick_account_for_generation after the counts query;
\* "" when the pick goes on to acquire
PickRefusal(counts) ==
    IF counts[1] = 0 THEN "no_accounts"
    ELSE IF counts[2] = 0 THEN "daily_limit_all"
    ELSE IF counts[3] = 0 THEN "no_active_slots"
    ELSE ""

\* mark_generation_created
MarkGenerationCreated(accts, a, day) == IncrementDaily(accts, a, day)

\* a release that also charges the daily quota of the account
ReleaseAndCharge(accts, a) ==
    IF a \in DOMAIN accts
    THEN DecrementActive([accts EXCEPT ![a].daily_generations = @ + 1], a)
    ELSE accts

\* mark_generation_finished
MarkGenerationFinished(accts, a) == DecrementActive(accts, a)

\* mark_account_daily_exhausted
MarkAccountDailyExhausted(accts, a, day) == SetDaily(accts, a, DAILY_LIMIT, day)
\* pick_account_for_generation run without interruption, as inside the bot's
\* one event loop: the table after it, the account id (or NULL), the error key
PickAccountForGeneration(accts, day) ==
    LET t   == ResetDaily(accts, day)
        r   == PickRefusal(ListAccountsCounts(t))
        res == AcquireAccount(t, day)
    IN  IF r # "" THEN [accts |-> t, acc |-> NULL, reason |-> r]
        ELSE IF res.acc = NULL
             THEN [accts |-> res.accts, acc |-> NULL, reason |-> "no_active_slots"]
             ELSE [accts |-> res.accts, acc |-> res.acc, reason |-> ""]

(***************************************************************************)
(* utils/accounts.py, utils/db.py: cookie files and account keys           *)
(***************************************************************************)
\* A cookie file is the JSON array an operator uploads: a list of cookies,
\* of which the model keeps name, value, domain and path, and whether the
\* cookie has other fields besides (expiry, flags).  The domain "#" stands
\* for a domain that is not a string.  The files add_account is called with
\* have the default path "/" everywhere.
CookieNames == {"a", "b"}
CookieDomains == {"X", "x", "#"}
Cookies == [name : CookieNames, value : {1}, domain : CookieDomains, path : {"/"},
            other : {FALSE}]
CookieFiles == UNION {[1..n -> Cookies] : n \in 1..MaxCookies}

\* str.lower() on a domain or a path
Lower(d) == IF d = "X" THEN "x" ELSE IF d = "/A" THEN "/a" ELSE d

\* the order of Python strings on the names and domains of the model
NameRank(n) == IF n = "a" THEN 1 ELSE 2
DomainRank(d) == IF d = "#" THEN 1 ELSE IF d = "X" THEN 2 ELSE 3
PathRank(p) == IF p = "/" THEN 1 ELSE IF p = "/A" THEN 2 ELSE 3

\* _canonicalize_cookies raises on a domain that has no lower()
Canonicalizable(file) == \A i \in DOMAIN file : file[i].domain # "#"

\* _canonicalize_cookies: what is kept of one cookie
Normalized(c) ==
    [name |-> c.name, value |-> c.value, domain |-> Lower(c.domain), path |-> Lower(c.path)]

\* the sort key (domain, path, name) of norm.sort
CookieBefore(c, d) ==
    \/ DomainRank(c.domain) < DomainRank(d.domain)
    \/ /\ DomainRank(c.domain) = DomainRank(d.domain)
       /\ \/ PathRank(c.path) < PathRank(d.path)
          \/ PathRank(c.path) = PathRank(d.path) /\ NameRank(c.name) <= NameRank(d.name)

RECURSIVE SortCookies(_)
\* norm.sort: a stable insertion of the last cookie into the sorted rest
SortCookies(seq) ==
    IF Len(seq) <= 1 THEN seq
    ELSE LET rest == SortCookies(SubSeq(seq, 1, Len(seq) - 1))
             c    == seq[Len(seq)]
             k    == Cardinality({i \in DOMAIN rest : CookieBefore(rest[i], c)})
         IN  SubSeq(rest, 1, k) \o <<c>> \o SubSeq(rest, k + 1, Len(rest))

\* _canonicalize_cookies of a file it does not raise on
Canonical(file) == SortCookies([i \in DOMAIN file |-> Normalized(file[i])])

\* account keys: none (SQL NULL), a stable identifier taken from the token,
\* or "cookiehash:" + sha256 of the canonical cookies
NoKey == [id |-> 0, hash |-> << >>]
IdKey(n) == [id |-> n, hash |-> << >>]
HashKey(canon) == [id |-> 0, hash |-> canon]

\* the outcomes of validate_cookies: it raises, or it returns a token whose
\* payload names identity n (0: no stable identifier in the payload)
ProbeFailed == -1
Probes == {ProbeFailed} \cup (0..NumIdentities)

\* add_account: the account key derived from the token, else from the cookies
DeriveKey(file, probe) ==
    IF probe > 0 THEN IdKey(probe)
    ELSE IF Canonicalizable(file) THEN HashKey(Canonical(file))
    ELSE NoKey

\* a lookup that finds no account whatever the key
NoAccountIdByKey(creds, key) == NULL

\* get_account_id_by_key
GetAccountIdByKey(creds, key) ==
    LET S == {a \in DOMAIN creds : creds[a].account_key = key}
    IN  IF S = {} THEN NULL ELSE CHOOSE a \in S : \A b \in S : a <= b

\* the comparison inside the loop over list_all_accounts_minimal
SameCookiesStored(creds, file) ==
    /\ Canonicalizable(file)
    /\ \E a \in DOMAIN creds :
          /\ Canonicalizable(creds[a].cookies_json)
          /\ Canonical(creds[a].cookies_json) = Canonical(file)

\* The DuplicateAccountError of that loop is raised inside the try whose
\* "except Exception: continue" catches it (DuplicateAccountError is a
\* ValueError): the loop goes on to the next row.
CaughtInLoop == TRUE

\* the extra guard of add_account leaves the loop with DuplicateAccountError
CookiesGuardRaises(creds, file) == SameCookiesStored(creds, file) /\ ~CaughtInLoop

\* the columns of a row that is not stored
NoCredential == [cookies_json |-> << >>, account_key |-> NoKey]

\* the cookie file and key of the n-th account of a pool that is in use
StoredCookieFile(n) ==
    <<[name |-> "a", value |-> n, domain |-> "x", path |-> "/", other |-> FALSE]>>

\* add_account_row under the unique index on non-null account keys: the
\* tables after the INSERT and the new id, NULL when the index refuses it
InsertAccountRow(accts, creds, file, key) ==
    IF key # NoKey /\ \E a \in DOMAIN creds : creds[a].account_key = key
    THEN [accounts |-> accts, credentials |-> creds, id |-> NULL]
    ELSE LET n == Cardinality(DOMAIN accts) + 1
         IN  [accounts |-> [a \in DOMAIN accts \cup {n} |->
                               IF a \in DOMAIN accts THEN accts[a] ELSE NewAccountRow],
              credentials |-> [a \in DOMAIN creds \cup {n} |->
                               IF a \in DOMAIN creds THEN creds[a]
                               ELSE [cookies_json |-> file, account_key |-> key]],
              id |-> n]

\* add_account: how the call ends and what it leaves in the tables
AddAccountCall(accts, creds, file, probe) ==
    LET key == DeriveKey(file, probe)
        ins == InsertAccountRow(accts, creds, file, key)
        kept == [accounts |-> accts, credentials |-> creds, id |-> NULL]
    IN  IF probe = ProbeFailed
        THEN [result |-> "invalid"] @@ kept
        ELSE IF key # NoKey /\ GetAccountIdByKey(creds, key) # NULL
        THEN [result |-> "duplicate"] @@ kept
        ELSE IF CookiesGuardRaises(creds, file)
        THEN [result |-> "duplicate"] @@ kept
        ELSE IF ins.id = NULL
        THEN [result |-> "integrity_error"] @@ kept
        ELSE [result |-> "stored"] @@ ins

\* no add_account call has returned yet
NoAdd == [result |-> "", id |-> NULL]

\* the generator of a run that has not been started
NoEvent == [event |-> "", status |-> "", pos |-> NULL, pct |-> NULL, keys |-> ""]
\* the task is not in the pending feed, not in the drafts list
NoItem == [status |-> "", pct |-> 0, pos |-> 0, failure_reason |-> FALSE]
NoDraft == [kind |-> "", reason |-> FALSE, url |-> FALSE, encodings |-> FALSE]
\* no run: a generator not called yet.  rec tells that the model records
\* what the run's last pending request (item) and last drafts request (my)
\* found (ClassifySpec)
IdleRun ==
    [pc |-> "idle", resume |-> FALSE, image |-> FALSE, acc |-> NULL,
     last_progress_key |-> NoEvent, found_gen_id |-> FALSE, late |-> FALSE,
     timeout_sec |-> 0, elapsed |-> 0, rec |-> FALSE, item |-> NoItem, my |-> NoDraft]
\* _process_job not started: the job's status, wait_message_id in the store
\* (stored) and in the job dict (held), whether an edit or delete has failed,
\* whether one was attempted after that, the event handled last, the events
\* handled (up to MaxEvents) and those handled since the failure (up to 2),
\* and the "unknown state" error messages delivered to the requester (told)
IdleWait ==
    [pc |-> "idle", status |-> "running", stored |-> FALSE, held |-> FALSE,
     failed |-> FALSE, late |-> FALSE, last |-> "", handled |-> 0, since |-> 0,
     told |-> 0]

\* no shutdown() call under way: the loop task waits or runs
NoShutdown == [tasks |-> {}, loop |-> "waiting"]

\* the calls on one client session
Callers == 1..MaxCallers

\* no call under way: got is the token the caller's last call returned
IdleCall == [pc |-> "idle", got |-> NULL]

\* _AsyncBrowserSession.__init__: no access token (tokens are numbered by
\* the refresh request that obtained them), no expiry, the refresh lock
\* free (lock is the caller holding it); requests counts the GETs of
\* /api/auth/session
NewSession ==
    [access_token |-> NULL, exp |-> "none", lock |-> NULL, requests |-> 0,
     call |-> [c \in Callers |-> IdleCall]]

\* no cookie export under comparison
NoExport == [first |-> << >>, now |-> << >>, keys |-> << >>]

ClientIdle ==
    /\ run = IdleRun /\ events = << >> /\ wait = IdleWait /\ stop = NoShutdown
    /\ session = NewSession
    /\ export = NoExport

(***************************************************************************)
(* utils/db.py: the generation_jobs table.  A row that has not been        *)
(* INSERTed yet has status "none".                                         *)
(***************************************************************************)
NoJobRow ==
    [status |-> "none", task_id |-> NULL, account_id |-> NULL,
     progress |-> NULL, image |-> FALSE]

\* a row INSERTed with an account already named
JobRowWithAccount(img) ==
    [status |-> "queued", task_id |-> NULL, account_id |-> 1,
     progress |-> NULL, image |-> img]

\* enqueue_generation_job: the row INSERTed; img tells whether image bytes came
NewJobRow(img) ==
    [status |-> "queued", task_id |-> NULL, account_id |-> NULL,
     progress |-> NULL, image |-> img]

\* the id AUTOINCREMENT gives the next INSERT; NULL when the model's table is full
NextJobId(js) ==
    LET F == {i \in JobIds : js[i].status = "none"}
    IN  IF F = {} THEN NULL ELSE CHOOSE i \in F : \A k \in F : i <= k

\* the same SELECT with ORDER BY id DESC: the newest queued row
NewestQueued(js) ==
    LET Q == {i \in JobIds : js[i].status = "queued"}
    IN  IF Q = {} THEN NULL ELSE CHOOSE i \in Q : \A k \in Q : i >= k

\* SELECT ... WHERE status = 'queued' ORDER BY id ASC LIMIT 1
NextQueued(js) ==
    LET Q == {i \in JobIds : js[i].status = "queued"}
    IN  IF Q = {} THEN NULL ELSE CHOOSE i \in Q : \A k \in Q : i <= k

\* fetch_next_queued_job: one BEGIN IMMEDIATE transaction that reads the
\* oldest queued row and marks it running
FetchNextQueuedJob(js) ==
    LET j == NextQueued(js)
    IN  IF j = NULL THEN [jobs |-> js, job |-> NULL]
        ELSE [jobs |-> [js EXCEPT ![j].status = "running"], job |-> j]

\* list_jobs_by_status(["running"])
RunningJobs(js) == {i \in JobIds : js[i].status = "running"}

(***************************************************************************)
(* utils/generation_queue.py                                               *)
(***************************************************************************)
\* _recover_running_jobs: the test that sends a running job to resume
Resumable(row) == row.task_id # NULL /\ row.account_id # NULL

\* _recover_running_jobs: the jobs handed to _start_job(job, resume=True)
ResumedJobs(js) == {i \in RunningJobs(js) : Resumable(js[i])}

\* _recover_running_jobs: the update_job that requeues a job
RequeuedRow(row) ==
    [row EXCEPT !.status = "queued", !.task_id = NULL,
                !.account_id = NULL, !.progress = NULL]

\* a recovery that requeues every running job, the ones it resumes included
RequeueEveryRunningJob(js) ==
    [i \in JobIds |-> IF js[i].status = "running" THEN RequeuedRow(js[i]) ELSE js[i]]

\* a recovery that requeues without clearing what the last attempt stored
RequeueKeepingFields(js) ==
    [i \in JobIds |->
        IF js[i].status = "running" /\ ~(js[i].task_id # NULL /\ js[i].account_id # NULL)
        THEN [js[i] EXCEPT !.status = "queued"] ELSE js[i]]

\* _recover_running_jobs: the jobs table after it
RecoverRunningJobs(js) ==
    [i \in JobIds |->
        IF js[i].status = "running" /\ ~Resumable(js[i])
        THEN RequeuedRow(js[i]) ELSE js[i]]

\* a task started as a fresh run whatever the resume flag says
TaskFromScratch(resume, row) ==
    [pc |-> "new", resume |-> FALSE, acc |-> NULL, tid |-> NULL,
     gen |-> FALSE, exc |-> FALSE]

\* _start_job: the task created for a job.  A resumed task carries the
\* account_id and task_id of the job row it was started from.
NewTask(resume, row) ==
    [pc |-> "new", resume |-> resume,
     acc |-> IF resume THEN row.account_id ELSE NULL,
     tid |-> IF resume THEN row.task_id ELSE NULL,
     gen |-> FALSE, exc |-> FALSE]

RECURSIVE RunLoopClaims(_, _, _)
\* the inner while of _run_loop: fetch and start jobs while fewer than
\* max_workers are in flight.  Yields the table, _inflight and the ids handed
\* to _start_job, in order.
RunLoopClaims(js, infl, started) ==
    IF Cardinality(infl) < max_workers
    THEN LET f == FetchNextQueuedJob(js)
         IN  IF f.job = NULL
             THEN [jobs |-> js, inflight |-> infl, started |-> started]
             ELSE RunLoopClaims(f.jobs, infl \cup {f.job}, Append(started, f.job))
    ELSE [jobs |-> js, inflight |-> infl, started |-> started]

\* x is among the ids of seq
InSeq(seq, x) == \E i \in DOMAIN seq : seq[i] = x
Capped(n) == IF n > 2 THEN 2 ELSE n

\* What ending a task does to the account it runs on.  gen tells that its
\* generator stands inside the try/finally that calls
\* mark_generation_finished (generate_video from its poll loop on,
\* resume_generation throughout): unwinding or closing it releases the slot.
EndOfGenerator(accts, t) ==
    IF t.gen THEN MarkGenerationFinished(accts, t.acc) ELSE accts

RECURSIVE EndOfGenerators(_, _)
\* the same for a set of tasks (shutdown cancels every task in _inflight)
EndOfGenerators(accts, J) ==
    IF J = {} THEN accts
    ELSE LET j == CHOOSE x \in J : \A y \in J : x <= y
         IN  EndOfGenerators(EndOfGenerator(accts, task[j]), J \ {j})

(***************************************************************************)
(* PoolSpec: the account pool under concurrent callers.                    *)
(* pick_account_for_generation runs three store transactions               *)
(* (reset_daily_where_needed, list_accounts_counts, acquire); callers in   *)
(* other threads or processes may run theirs in between.                   *)
(***************************************************************************)
IdlePicker == [pc |-> "idle", day |-> NULL]

\* no task of _process_job: the entry of a job id that has none
IdleTask ==
    [pc |-> "idle", resume |-> FALSE, acc |-> NULL, tid |-> NULL,
     gen |-> FALSE, exc |-> FALSE]

\* the result messages of a job where they are not recorded, and before any
\* was sent where they are: success messages (the video, or a text) and
\* error messages delivered, each counted up to 2
Unrecorded == [on |-> FALSE, ok |-> 0, err |-> 0]
NoMessages == [on |-> TRUE, ok |-> 0, err |-> 0]

\* bot.send_video / bot.send_message has delivered a message of this kind
Delivered(s, kind) ==
    IF ~s.on THEN s
    ELSE IF kind = "ok" THEN [s EXCEPT !.ok = Capped(@ + 1)]
    ELSE [s EXCEPT !.err = Capped(@ + 1)]

\* the queue's part of the state before any job is stored and before start()
QueueIdle ==
    /\ jobs = [j \in JobIds |-> NoJobRow]
    /\ proc = "down"
    /\ stopEvent = FALSE
    /\ wakeEvent = FALSE
    /\ inflight = {}
    /\ task = [j \in JobIds |-> IdleTask]
    /\ ntasks = [j \in JobIds |-> 0]
    /\ rel = [j \in JobIds |-> 0]
    /\ upstream = [j \in JobIds |-> 0]
    /\ max_workers \in 1..MaxWorkers
    /\ sent = [j \in JobIds |-> Unrecorded]

\* what a pick call returns: (account id or None, error key or None)
PickReturn(acc, reason) == [acc |-> acc, reason |-> reason]

\* a row as the store holds it when a pool process starts: never used
\* (d = 0), or used d times on the current date, the last time at stamp
StoredRow(d, x, stamp) ==
    IF d = 0
    THEN [NewAccountRow EXCEPT !.disabled = x]
    ELSE [NewAccountRow EXCEPT !.daily_generations = d, !.disabled = x,
                               !.last_used_at = stamp, !.last_used_date = 1]

\* the stored state a pool process may find: no rows at all, or rows added
\* by add_account_row, with counters as earlier use left them
PoolInit ==
    /\ \/ accounts = [a \in {} |-> NewAccountRow]
       \/ \E d \in [AccountIds -> {0, DAILY_LIMIT - 1}], x \in [AccountIds -> BOOLEAN] :
             /\ ~x[1]
             /\ accounts = RankStamps([a \in AccountIds |-> StoredRow(d[a], x[a], a)])
    /\ today = 1
    /\ picker = [p \in Pickers |-> IdlePicker]
    /\ lastPick = PickReturn(NULL, "")
    /\ reserved = [a \in AccountIds |-> 0]
    /\ exhausted = [a \in AccountIds |-> FALSE]
    /\ QueueIdle
    /\ max_workers = 1
    /\ credentials = [a \in DOMAIN accounts |->
                         [cookies_json |-> StoredCookieFile(a), account_key |-> IdKey(a)]]
    /\ added = NoAdd
    /\ ClientIdle

\* pick_account_for_generation up to its early returns:
\* reset_daily_where_needed(today_str), then list_accounts_counts
PickCheck(p) ==
    /\ picker[p].pc = "idle"
    /\ LET t == ResetDaily(accounts, today)
           r == PickRefusal(ListAccountsCounts(t))
       IN  /\ accounts' = t
           /\ IF r = ""
              THEN /\ picker' = [picker EXCEPT ![p] = [pc |-> "counted", day |-> today]]
                   /\ UNCHANGED lastPick
              ELSE /\ lastPick' = PickReturn(NULL, r)
                   /\ UNCHANGED picker
    /\ UNCHANGED <<today, reserved, exhausted, queueVars, adminVars, clientVars>>

\* pick_account_for_generation: acquire_account_for_generation and the return
PickAcquire(p) ==
    /\ picker[p].pc = "counted"
    /\ LET res == AcquireAccount(accounts, picker[p].day)
       IN  /\ accounts' = res.accts
           /\ picker' = [picker EXCEPT ![p] = IdlePicker]
           /\ lastPick' = IF res.acc = NULL
                          THEN PickReturn(NULL, "no_active_slots")
                          ELSE PickReturn(res.acc, "")
           /\ reserved' = IF res.acc = NULL THEN reserved
                          ELSE [reserved EXCEPT ![res.acc] = @ + 1]
    /\ UNCHANGED <<today, exhausted, queueVars, adminVars, clientVars>>

\* the daily counts from which the model follows one more increment
Followed(d) ==
    \/ d < MaxOver
    \/ d >= DAILY_LIMIT - 1 /\ d < DAILY_LIMIT - 1 + MaxOver

\* mark_generation_created, called by a run that reserved account a
PoolMarkCreated(a) ==
    /\ reserved[a] > 0
    /\ Followed(accounts[a].daily_generations)
    /\ accounts' = MarkGenerationCreated(accounts, a, today)
    /\ UNCHANGED <<today, picker, lastPick, reserved, exhausted, queueVars, adminVars, clientVars>>

\* mark_account_daily_exhausted, called by a run that reserved account a
PoolMarkExhausted(a) ==
    /\ reserved[a] > 0
    /\ accounts' = MarkAccountDailyExhausted(accounts, a, today)
    /\ exhausted' = [exhausted EXCEPT ![a] = TRUE]
    /\ UNCHANGED <<today, picker, lastPick, reserved, queueVars, adminVars, clientVars>>

\* mark_generation_finished: by a run that reserved account a, or by a
\* resumed run, which releases without having picked
PoolMarkFinished(a) ==
    /\ accounts' = MarkGenerationFinished(accounts, a)
    /\ reserved' = [reserved EXCEPT ![a] = IF @ > 0 THEN @ - 1 ELSE 0]
    /\ UNCHANGED <<today, picker, lastPick, exhausted, queueVars, adminVars, clientVars>>

\* midnight UTC
DayTick ==
    /\ today < MaxDay
    /\ today' = today + 1
    /\ exhausted' = [a \in AccountIds |-> FALSE]
    /\ UNCHANGED <<accounts, picker, lastPick, reserved, queueVars, adminVars, clientVars>>

PoolNext ==
    \/ \E p \in Pickers : PickCheck(p)
    \/ \E p \in Pickers : PickAcquire(p)
    \/ \E a \in AccountIds : PoolMarkCreated(a)
    \/ \E a \in AccountIds : PoolMarkExhausted(a)
    \/ \E a \in AccountIds : PoolMarkFinished(a)
    \/ DayTick

PoolSpec == PoolInit /\ [][PoolNext]_vars

(***************************************************************************)
(* Properties of the account pool, checked under PoolSpec                  *)
(***************************************************************************)
\* a is the only account of the pool that is not disabled
SingleAccount(a) ==
    /\ ~accounts[a].disabled
    /\ \A b \in DOMAIN accounts \ {a} : accounts[b].disabled

\* the error key a pick answers with when the single account a has no free
\* slot: the daily test comes first in pick_account_for_generation
FullAccountReason(a) ==
    IF ResetDaily(accounts, today)[a].daily_generations < DAILY_LIMIT
    THEN "no_active_slots" ELSE "daily_limit_all"

\* C1 as the specification states it: with a single non-disabled account of
\* limit k, never more than k reservations are outstanding, and every pick
\* issued while k are outstanding returns (None, "no_active_slots") and
\* leaves active_generations unchanged.
C1_AsStated ==
    /\ [](\A a \in AccountIds : reserved[a] <= CONCURRENCY_LIMIT)
    /\ [][\A p \in Pickers, a \in DOMAIN accounts :
            (SingleAccount(a) /\ reserved[a] = CONCURRENCY_LIMIT /\ PickCheck(p))
            => /\ picker'[p].pc = "idle"
               /\ lastPick' = PickReturn(NULL, "no_active_slots")
               /\ accounts'[a].active_generations = accounts[a].active_generations]_vars

\* C1, amended: never more than k reservations are outstanding on an account
\* of limit k, and every pick issued while the single non-disabled account
\* has k outstanding returns None and leaves active_generations unchanged;
\* its error key is "no_active_slots" when the account is below its daily
\* limit and "daily_limit_all" when it has reached it.
C1_PickAtLimit ==
    /\ [](\A a \in AccountIds : reserved[a] <= CONCURRENCY_LIMIT)
    /\ [][\A p \in Pickers, a \in DOMAIN accounts :
            (SingleAccount(a) /\ reserved[a] = CONCURRENCY_LIMIT /\ PickCheck(p))
            => /\ picker'[p].pc = "idle"
               /\ lastPick' = PickReturn(NULL, FullAccountReason(a))
               /\ accounts'[a].active_generations = accounts[a].active_generations]_vars

\* C1: a pick has been refused with no_active_slots while the single
\* account held k reservations and another pick had already passed the counts
C1_Reached ==
    \E a \in DOMAIN accounts :
        /\ SingleAccount(a)
        /\ reserved[a] = CONCURRENCY_LIMIT
        /\ lastPick = PickReturn(NULL, "no_active_slots")
        /\ \E p \in Pickers : picker[p].pc = "counted"

\* C10: every account has 0 <= active_generations <= CONCURRENCY_LIMIT in
\* every state, whatever the interleaving of picks and
\* mark_generation_finished calls, releases without a pick included.
C10_ActiveInRange ==
    \A a \in DOMAIN accounts :
        /\ accounts[a].active_generations >= 0
        /\ accounts[a].active_generations <= CONCURRENCY_LIMIT

\* C10: one account is at its limit, the other has been used and released
\* back to 0, and a pick stands between its counts and its acquire
C10_Reached ==
    \E a, b \in DOMAIN accounts :
        /\ a # b
        /\ accounts[a].active_generations = CONCURRENCY_LIMIT
        /\ accounts[b].active_generations = 0
        /\ accounts[b].last_used_at # NULL
        /\ \E p \in Pickers : picker[p].pc = "counted"

\* C11 as the specification states it: every account has
\* 0 <= daily_generations <= DAILY_LIMIT in every state, whatever the
\* interleaving of picks, mark_generation_created and
\* mark_account_daily_exhausted of runs that reserved the same account.
C11_AsStated ==
    \A a \in DOMAIN accounts :
        /\ accounts[a].daily_generations >= 0
        /\ accounts[a].daily_generations <= DAILY_LIMIT

\* the rows below their daily cap, the rows of S with a free slot
UnderDailyCap(accts) ==
    {a \in DOMAIN accts : accts[a].daily_generations < DAILY_LIMIT}
EnabledUnderCap(accts) ==
    {a \in UnderDailyCap(accts) : ~accts[a].disabled}
WithFreeSlot(accts, S) ==
    {a \in S : accts[a].active_generations < CONCURRENCY_LIMIT}

SortKey(accts, a) ==
    <<accts[a].active_generations, accts[a].daily_generations,
      accts[a].last_used_at, a>>

\* x comes no later than y in the lexicographic order of 4-tuples
LexLeq(x, y) ==
    \E i \in 1..5 :
        /\ \A k \in 1..(i - 1) : x[k] = y[k]
        /\ i = 5 \/ x[i] < y[i]

\* C13: a pick that returns an account returns one that, at the reservation
\* (after the reset of the same transaction), was not disabled, below
\* DAILY_LIMIT and below CONCURRENCY_LIMIT, and that was minimal among all
\* such accounts under (active_generations, daily_generations, last_used_at
\* with NULL first, id); its active_generations has gone up by one.
C13_MinimalEligible ==
    [][\A p \in Pickers :
          (PickAcquire(p) /\ lastPick'.acc # NULL) =>
              LET t == ResetDaily(accounts, picker[p].day)
                  a == lastPick'.acc
                  S == WithFreeSlot(t, EnabledUnderCap(t))
              IN  /\ a \in S
                  /\ \A b \in S : LexLeq(SortKey(t, a), SortKey(t, b))
                  /\ accounts'[a].active_generations = t[a].active_generations + 1
                  /\ accounts'[a].daily_generations = t[a].daily_generations]_vars

\* C13: account 2 was returned last although account 1 is selectable too:
\* both are enabled, with equal daily counts and one active generation each
C13_Reached ==
    /\ DOMAIN accounts = AccountIds
    /\ lastPick = PickReturn(2, "")
    /\ \A a \in AccountIds : ~accounts[a].disabled
    /\ accounts[1].daily_generations = accounts[2].daily_generations
    /\ accounts[1].active_generations = 1
    /\ accounts[2].active_generations = 1
    /\ accounts[1].last_used_at < accounts[2].last_used_at

\* the stored date of row a is a date before today
Stale(a) ==
    accounts[a].last_used_date # NULL /\ accounts[a].last_used_date # today

\* C14 as the specification states it: the first accounting operation that
\* touches an account whose stored date differs from the current UTC date
\* resets daily_generations to zero before applying its own change (a pick
\* leaves 0, mark_generation_created 1, mark_account_daily_exhausted
\* DAILY_LIMIT), and no daily count of an account whose stored date is
\* current is reset.
C14_AsStated ==
    [][\A a \in DOMAIN accounts :
          /\ (Stale(a) /\ PoolMarkCreated(a)) => accounts'[a].daily_generations = 1
          /\ (Stale(a) /\ PoolMarkExhausted(a)) =>
                accounts'[a].daily_generations = DAILY_LIMIT
          /\ \A p \in Pickers :
                /\ (Stale(a) /\ PickCheck(p)) =>
                      /\ accounts'[a].daily_generations = 0
                      /\ accounts'[a].last_used_date = today
                /\ (~Stale(a) /\ (PickCheck(p) \/ PickAcquire(p))) =>
                      accounts'[a].daily_generations = accounts[a].daily_generations]_vars

Init ==
    /\ accounts = [a \in {} |-> NewAccountRow]
    /\ today = 1
    /\ picker = [p \in Pickers |-> IdlePicker]
    /\ lastPick = PickReturn(NULL, "")
    /\ reserved = [a \in AccountIds |-> 0]
    /\ exhausted = [a \in AccountIds |-> FALSE]
    /\ QueueIdle
    /\ credentials = [a \in {} |-> NoCredential]
    /\ added = NoAdd
    /\ ClientIdle

\* add_account_row: a new account with default counters
AddAccountRow ==
    /\ Cardinality(DOMAIN accounts) < QueueAccounts
    /\ LET n == Cardinality(DOMAIN accounts) + 1
           r == InsertAccountRow(accounts, credentials, StoredCookieFile(n), IdKey(n))
       IN  /\ accounts' = r.accounts
           /\ credentials' = r.credentials
    /\ UNCHANGED <<today, poolVars, queueVars, added, clientVars>>

\* enqueue_generation_job
Enqueue(img) ==
    /\ proc = "up"
    /\ NextJobId(jobs) # NULL
    /\ jobs' = [jobs EXCEPT ![NextJobId(jobs)] = NewJobRow(img)]
    /\ UNCHANGED <<accounts, today, poolVars, adminVars, clientVars, proc, stopEvent, wakeEvent,
                   inflight, task, ntasks, rel, upstream, max_workers, sent>>

\* notify_new_job
NotifyNewJob ==
    /\ proc = "up"
    /\ wakeEvent' = TRUE
    /\ UNCHANGED <<accounts, today, poolVars, adminVars, clientVars, jobs, proc, stopEvent,
                   inflight, task, ntasks, rel, upstream, max_workers, sent>>

\* main() building a GenerationQueue and awaiting start(): crash recovery,
\* then the loop task is created
Start ==
    /\ proc \in {"down", "stopped"}
    /\ proc' = "up"
    /\ stopEvent' = FALSE
    /\ jobs' = RecoverRunningJobs(jobs)
    /\ inflight' = ResumedJobs(jobs)
    /\ task' = [j \in JobIds |->
                   IF j \in ResumedJobs(jobs) THEN NewTask(TRUE, jobs[j]) ELSE IdleTask]
    /\ ntasks' = [j \in JobIds |-> IF j \in ResumedJobs(jobs) THEN 1 ELSE 0]
    /\ wakeEvent' = (RunningJobs(jobs) \ ResumedJobs(jobs) # {})
    /\ UNCHANGED <<accounts, today, poolVars, adminVars, clientVars, rel, upstream, max_workers, sent>>

\* a wait on the wake event without a timeout
WaitWithoutTimeout(wake) == wake

\* _run_loop: asyncio.wait_for(self._wake_event.wait(), timeout=1.0) comes
\* back, on the event or on its timeout
WaitReturns(wake) == TRUE

\* one turn of _run_loop: the wait on _wake_event returns (set, or the 1 s
\* timeout), the event is cleared, and the inner while claims and starts jobs
RunLoop ==
    /\ proc = "up"
    /\ ~stopEvent
    /\ WaitReturns(wakeEvent)
    /\ LET c == RunLoopClaims(jobs, inflight, << >>)
       IN  /\ jobs' = c.jobs
           /\ inflight' = c.inflight
           /\ task' = [j \in JobIds |->
                          IF InSeq(c.started, j) THEN NewTask(FALSE, jobs[j]) ELSE task[j]]
           /\ ntasks' = [j \in JobIds |->
                            IF InSeq(c.started, j) THEN Capped(ntasks[j] + 1) ELSE ntasks[j]]
    /\ wakeEvent' = FALSE
    /\ UNCHANGED <<accounts, today, poolVars, adminVars, clientVars, proc, stopEvent, rel, upstream, max_workers, sent>>

\* a cancellation handled like any other exception of the run
CancelledAsFailure(row) == [row EXCEPT !.status = "failed", !.image = FALSE]

\* _process_job on CancelledError: "except asyncio.CancelledError: raise",
\* ahead of the except Exception that calls _handle_failure; nothing is
\* written to the row
CancelledRow(row) == row

\* shutdown(): both events set, every task in _inflight cancelled and
\* awaited, _inflight cleared
Shutdown ==
    /\ proc = "up"
    /\ proc' = "stopped"
    /\ stopEvent' = TRUE
    /\ wakeEvent' = TRUE
    /\ accounts' = EndOfGenerators(accounts, inflight)
    /\ rel' = [j \in JobIds |->
                  IF j \in inflight /\ task[j].gen THEN Capped(rel[j] + 1) ELSE rel[j]]
    /\ jobs' = [j \in JobIds |-> IF j \in inflight THEN CancelledRow(jobs[j]) ELSE jobs[j]]
    /\ task' = [j \in JobIds |-> IdleTask]
    /\ ntasks' = [j \in JobIds |-> 0]
    /\ inflight' = {}
    /\ UNCHANGED <<today, poolVars, adminVars, clientVars, upstream, max_workers, sent>>

\* the process dies (kill, power loss): memory is lost, the tables stay
Crash ==
    /\ proc = "up"
    /\ proc' = "down"
    /\ stopEvent' = FALSE
    /\ wakeEvent' = FALSE
    /\ task' = [j \in JobIds |-> IdleTask]
    /\ ntasks' = [j \in JobIds |-> 0]
    /\ inflight' = {}
    /\ UNCHANGED <<accounts, today, poolVars, adminVars, clientVars, jobs, rel, upstream, max_workers, sent>>

\* what a step of one job task leaves alone besides accounts, jobs, task, rel
JobStepFrame ==
    UNCHANGED <<today, poolVars, adminVars, clientVars, proc, stopEvent, wakeEvent, inflight, ntasks, max_workers, sent>>

\* the same for _handle_failure and _handle_success, which send the result
\* message
HandlerFrame ==
    UNCHANGED <<today, poolVars, adminVars, clientVars, proc, stopEvent, wakeEvent, inflight, ntasks, max_workers>>

\* an account event whose account_id is not stored
AccountEventUnstored(row, acc) == row

\* _handle_event on an account event: update_job(account_id=...)
AccountEventRow(row, acc) == [row EXCEPT !.account_id = acc]

\* an error event that _handle_event lets pass like an unknown event
ErrorEventIgnored(row) == row

\* _handle_event on an error event: update_job(status="failed"), then
\* _handle_failure is entered
ErrorEventRow(row) == [row EXCEPT !.status = "failed"]

\* _handle_event on a finished event: update_job(status="completed",
\* progress=1.0), then _handle_success is entered
FinishedEventRow(row) == [row EXCEPT !.status = "completed", !.progress = 100]

\* the last update_job of _handle_failure
FailureRow(row) == [row EXCEPT !.status = "failed", !.image = FALSE]

\* the last update_job of _handle_success
SuccessRow(row) == [row EXCEPT !.status = "completed", !.progress = 100, !.image = FALSE]

\* the task of job j ends (it returns, or an exception leaves _process_job):
\* its abandoned generator is finalized and _on_task_done runs
TaskEnds(j) ==
    /\ accounts' = EndOfGenerator(accounts, task[j])
    /\ rel' = [rel EXCEPT ![j] = IF task[j].gen THEN Capped(@ + 1) ELSE @]
    /\ task' = [task EXCEPT ![j] = IdleTask]
    /\ ntasks' = [ntasks EXCEPT ![j] = IF @ > 0 THEN @ - 1 ELSE 0]
    /\ inflight' = inflight \ {j}
    /\ wakeEvent' = TRUE
    /\ UNCHANGED <<today, poolVars, adminVars, clientVars, proc, stopEvent, upstream, max_workers>>

\* the task of job j ends in a step that sends no result message
TaskDone(j) == TaskEnds(j) /\ sent' = sent

\* _process_job of a claimed job up to the generator's first await: the
\* "starting soon" edit, then generate_video picks an account and yields the
\* account event (update_job(account_id)), or refuses with an error event
BeginFresh(j) ==
    /\ proc = "up"
    /\ task[j].pc = "new"
    /\ ~task[j].resume
    /\ LET r == PickAccountForGeneration(accounts, today)
       IN  /\ accounts' = r.accts
           /\ IF r.acc = NULL
              THEN /\ jobs' = [jobs EXCEPT ![j] = ErrorEventRow(@)]
                   /\ task' = [task EXCEPT ![j].pc = "fail"]
                   /\ rel' = rel
              ELSE /\ jobs' = [jobs EXCEPT ![j] = AccountEventRow(@, r.acc)]
                   /\ task' = [task EXCEPT ![j].pc = "auth", ![j].acc = r.acc]
                   /\ rel' = [rel EXCEPT ![j] = 0]
    /\ upstream' = upstream
    /\ JobStepFrame

\* _process_job of a resumed job up to the generator's first await: the
\* "resuming" edit, then resume_generation loads the credentials, enters its
\* try/finally and yields the account event
BeginResume(j) ==
    /\ proc = "up"
    /\ task[j].pc = "new"
    /\ task[j].resume
    /\ IF task[j].acc \in DOMAIN accounts
       THEN /\ jobs' = [jobs EXCEPT ![j] = AccountEventRow(@, task[j].acc)]
            /\ task' = [task EXCEPT ![j].pc = "auth", ![j].gen = TRUE]
       ELSE /\ jobs' = [jobs EXCEPT ![j] = ErrorEventRow(@)]
            /\ task' = [task EXCEPT ![j].pc = "fail"]
    /\ UNCHANGED <<accounts, rel, upstream>>
    /\ JobStepFrame

\* the first _edit_wait_message of _process_job (lines 152 and 164, outside
\* the try) raises something that is not a TelegramAPIError: the task ends
\* before its generator has run
BeginRaises(j) ==
    /\ proc = "up"
    /\ task[j].pc = "new"
    /\ jobs' = jobs
    /\ TaskDone(j)

\* _ensure_access_token, then the auth event and its edit
Auth(j) ==
    /\ proc = "up"
    /\ task[j].pc = "auth"
    /\ \E out \in {"ok", "fail", "edit_raises"} :
          CASE out = "ok" ->
                  /\ task' = [task EXCEPT ![j].pc =
                                 IF task[j].resume THEN "poll"
                                 ELSE IF jobs[j].image THEN "upload" ELSE "create"]
                  /\ UNCHANGED <<accounts, jobs, rel>>
            [] out = "fail" ->
                  /\ accounts' = IF task[j].resume THEN accounts
                                 ELSE MarkGenerationFinished(accounts, task[j].acc)
                  /\ rel' = [rel EXCEPT ![j] = IF task[j].resume THEN @ ELSE Capped(@ + 1)]
                  /\ jobs' = [jobs EXCEPT ![j] = ErrorEventRow(@)]
                  /\ task' = [task EXCEPT ![j].pc = "fail"]
            [] out = "edit_raises" ->
                  /\ task' = [task EXCEPT ![j].pc = "fail", ![j].exc = TRUE]
                  /\ UNCHANGED <<accounts, jobs, rel>>
    /\ upstream' = upstream
    /\ JobStepFrame

\* the upload of the start image, then the uploaded event and its edit
Upload(j) ==
    /\ proc = "up"
    /\ task[j].pc = "upload"
    /\ \E out \in {"ok", "fail", "edit_raises"} :
          CASE out = "ok" ->
                  /\ task' = [task EXCEPT ![j].pc = "create"]
                  /\ UNCHANGED <<accounts, jobs, rel>>
            [] out = "fail" ->
                  /\ accounts' = MarkGenerationFinished(accounts, task[j].acc)
                  /\ rel' = [rel EXCEPT ![j] = Capped(@ + 1)]
                  /\ jobs' = [jobs EXCEPT ![j] = ErrorEventRow(@)]
                  /\ task' = [task EXCEPT ![j].pc = "fail"]
            [] out = "edit_raises" ->
                  /\ task' = [task EXCEPT ![j].pc = "fail", ![j].exc = TRUE]
                  /\ UNCHANGED <<accounts, jobs, rel>>
    /\ upstream' = upstream
    /\ JobStepFrame

\* POST /backend/nf/create and what follows without an await in between:
\* on acceptance mark_generation_created, the queued event and
\* update_job(task_id); on refusal the release and the error event.  The
\* request itself (line 576) stands in no try block.
Create(j) ==
    /\ proc = "up"
    /\ task[j].pc = "create"
    /\ \E out \in {"accepted", "daily_limit", "refused", "raises"} :
          CASE out = "accepted" ->
                  /\ accounts' = MarkGenerationCreated(accounts, task[j].acc, today)
                  /\ upstream' = [upstream EXCEPT ![j] = @ + 1]
                  /\ jobs' = [jobs EXCEPT ![j].task_id = upstream[j] + 1]
                  /\ task' = [task EXCEPT ![j].pc = "queued", ![j].tid = upstream[j] + 1]
                  /\ rel' = rel
            [] out = "daily_limit" ->
                  /\ accounts' = MarkGenerationFinished(
                                     MarkAccountDailyExhausted(accounts, task[j].acc, today),
                                     task[j].acc)
                  /\ rel' = [rel EXCEPT ![j] = Capped(@ + 1)]
                  /\ jobs' = [jobs EXCEPT ![j] = ErrorEventRow(@)]
                  /\ task' = [task EXCEPT ![j].pc = "fail"]
                  /\ upstream' = upstream
            [] out = "refused" ->
                  /\ accounts' = MarkGenerationFinished(accounts, task[j].acc)
                  /\ rel' = [rel EXCEPT ![j] = Capped(@ + 1)]
                  /\ jobs' = [jobs EXCEPT ![j] = ErrorEventRow(@)]
                  /\ task' = [task EXCEPT ![j].pc = "fail"]
                  /\ upstream' = upstream
            [] out = "raises" ->
                  /\ task' = [task EXCEPT ![j].pc = "fail", ![j].exc = TRUE]
                  /\ UNCHANGED <<accounts, jobs, rel, upstream>>
    /\ JobStepFrame

\* the edit that follows the queued event; when it returns the generator is
\* resumed and enters the try/finally around its poll loop
Queued(j) ==
    /\ proc = "up"
    /\ task[j].pc = "queued"
    /\ \E out \in {"ok", "edit_raises"} :
          CASE out = "ok" ->
                  task' = [task EXCEPT ![j].pc = "poll", ![j].gen = TRUE]
            [] out = "edit_raises" ->
                  task' = [task EXCEPT ![j].pc = "fail", ![j].exc = TRUE]
    /\ UNCHANGED <<accounts, jobs, rel, upstream>>
    /\ JobStepFrame

\* one round of _poll_generation with the handling of the event it yields
Poll(j) ==
    /\ proc = "up"
    /\ task[j].pc = "poll"
    /\ \E out \in {"progress", "edit_raises", "error", "finished", "raises"} :
          CASE out = "progress" ->
                  /\ jobs' = [jobs EXCEPT ![j].progress = 50]
                  /\ UNCHANGED <<accounts, task, rel>>
            [] out = "edit_raises" ->
                  /\ jobs' = [jobs EXCEPT ![j].progress = 50]
                  /\ task' = [task EXCEPT ![j].pc = "fail", ![j].exc = TRUE]
                  /\ UNCHANGED <<accounts, rel>>
            [] out = "error" ->
                  /\ jobs' = [jobs EXCEPT ![j] = ErrorEventRow(@)]
                  /\ task' = [task EXCEPT ![j].pc = "fail"]
                  /\ UNCHANGED <<accounts, rel>>
            [] out = "finished" ->
                  /\ jobs' = [jobs EXCEPT ![j] = FinishedEventRow(@)]
                  /\ task' = [task EXCEPT ![j].pc = "success"]
                  /\ UNCHANGED <<accounts, rel>>
            [] out = "raises" ->
                  \* generate_video: the exception passes its finally and
                  \* reaches _process_job; resume_generation: it is caught
                  \* and turned into a resume_failed error event
                  IF task[j].resume
                  THEN /\ jobs' = [jobs EXCEPT ![j] = ErrorEventRow(@)]
                       /\ task' = [task EXCEPT ![j].pc = "fail"]
                       /\ UNCHANGED <<accounts, rel>>
                  ELSE /\ accounts' = MarkGenerationFinished(accounts, task[j].acc)
                       /\ rel' = [rel EXCEPT ![j] = Capped(@ + 1)]
                       /\ task' = [task EXCEPT ![j].pc = "fail", ![j].gen = FALSE,
                                                ![j].exc = TRUE]
                       /\ jobs' = jobs
    /\ upstream' = upstream
    /\ JobStepFrame

\* _handle_failure.  exc tells that it runs in the except branch of
\* _process_job, where an exception ends the task; one raised while an error
\* event is handled is caught by that branch, which calls it again.  The
\* error message is delivered ("ok"), refused with a TelegramAPIError that
\* is passed over ("unsent"), or something else is raised, before the
\* message was sent ("raises") or after it ("raises_after").
HandleFailure(j) ==
    /\ proc = "up"
    /\ task[j].pc = "fail"
    /\ \E out \in {"ok", "unsent", "raises", "raises_after"} :
          /\ sent' = [sent EXCEPT ![j] = IF out \in {"ok", "raises_after"}
                                         THEN Delivered(@, "err") ELSE @]
          /\ CASE out \in {"ok", "unsent"} ->
                  /\ jobs' = [jobs EXCEPT ![j] = FailureRow(@)]
                  /\ TaskEnds(j)
            [] out \in {"raises", "raises_after"} ->
                  IF task[j].exc
                  THEN /\ jobs' = jobs
                       /\ TaskEnds(j)
                  ELSE /\ task' = [task EXCEPT ![j].exc = TRUE]
                       /\ UNCHANGED <<accounts, jobs, rel, upstream>>
                       /\ HandlerFrame

\* _handle_success; an exception it raises is caught by the except branch of
\* _process_job, which calls _handle_failure.  The video, or the text that
\* replaces it, is delivered ("ok"), or every send is refused with a
\* TelegramAPIError that is passed over ("unsent"), or something else is
\* raised, before a message was sent ("raises") or after it ("raises_after").
HandleSuccess(j) ==
    /\ proc = "up"
    /\ task[j].pc = "success"
    /\ \E out \in {"ok", "unsent", "raises", "raises_after"} :
          /\ sent' = [sent EXCEPT ![j] = IF out \in {"ok", "raises_after"}
                                         THEN Delivered(@, "ok") ELSE @]
          /\ CASE out \in {"ok", "unsent"} ->
                  /\ jobs' = [jobs EXCEPT ![j] = SuccessRow(@)]
                  /\ TaskEnds(j)
            [] out \in {"raises", "raises_after"} ->
                  /\ task' = [task EXCEPT ![j].pc = "fail", ![j].exc = TRUE]
                  /\ UNCHANGED <<accounts, jobs, rel, upstream>>
                  /\ HandlerFrame

Next ==
    \/ AddAccountRow
    \/ \E img \in BOOLEAN : Enqueue(img)
    \/ NotifyNewJob
    \/ Start
    \/ RunLoop
    \/ Shutdown
    \/ Crash
    \/ \E j \in JobIds : BeginFresh(j)
    \/ \E j \in JobIds : BeginResume(j)
    \/ \E j \in JobIds : BeginRaises(j)
    \/ \E j \in JobIds : Auth(j)
    \/ \E j \in JobIds : Upload(j)
    \/ \E j \in JobIds : Create(j)
    \/ \E j \in JobIds : Queued(j)
    \/ \E j \in JobIds : Poll(j)
    \/ \E j \in JobIds : HandleFailure(j)
    \/ \E j \in JobIds : HandleSuccess(j)

Spec == Init /\ [][Next]_vars

\* The process dies while the creation request of job j is under way
\* (between the await of post_json and the end of await resp.json()):
\* upstream has accepted the request and created the task, the process has
\* read no task id.  Memory is lost, the tables stay as they were.
CrashInCreate(j) ==
    /\ proc = "up"
    /\ task[j].pc = "create"
    /\ upstream[j] < MaxLost
    /\ upstream' = [upstream EXCEPT ![j] = @ + 1]
    /\ proc' = "down"
    /\ stopEvent' = FALSE
    /\ wakeEvent' = FALSE
    /\ task' = [k \in JobIds |-> IdleTask]
    /\ ntasks' = [k \in JobIds |-> 0]
    /\ inflight' = {}
    /\ UNCHANGED <<accounts, today, poolVars, adminVars, clientVars, jobs, rel, max_workers, sent>>

\* a queue built with a single worker: the job that waits behind the worker
\* can be claimed only when the job in flight has ended
LiveInit == Init /\ max_workers = 1

CrashNext ==
    \/ Next
    \/ \E j \in JobIds : CrashInCreate(j)

\* The queue, built with a single worker, with the crash that falls between
\* upstream's acceptance of a creation request and the process reading the
\* answer
CrashSpec == LiveInit /\ [][CrashNext]_vars

\* The queue, built with a single worker, with the result messages that
\* reach the requester of job 1 recorded
NotifyInit ==
    /\ accounts = [a \in {} |-> NewAccountRow]
    /\ today = 1
    /\ picker = [p \in Pickers |-> IdlePicker]
    /\ lastPick = PickReturn(NULL, "")
    /\ reserved = [a \in AccountIds |-> 0]
    /\ exhausted = [a \in AccountIds |-> FALSE]
    /\ jobs = [j \in JobIds |-> NoJobRow]
    /\ proc = "down"
    /\ stopEvent = FALSE
    /\ wakeEvent = FALSE
    /\ inflight = {}
    /\ task = [j \in JobIds |-> IdleTask]
    /\ ntasks = [j \in JobIds |-> 0]
    /\ rel = [j \in JobIds |-> 0]
    /\ upstream = [j \in JobIds |-> 0]
    /\ max_workers = 1
    /\ sent = [j \in JobIds |-> IF j = 1 THEN NoMessages ELSE Unrecorded]
    /\ credentials = [a \in {} |-> NoCredential]
    /\ added = NoAdd
    /\ ClientIdle

NotifySpec == NotifyInit /\ [][Next]_vars

(***************************************************************************)
(* StopSpec: the queue with shutdown() taken step by step: the call up to  *)
(* its await of gather, the cancelled tasks unwinding one by one, and the  *)
(* return of gather.  proc is "stopping" in between.                       *)
(***************************************************************************)
\* a loop that goes round again although _stop_event is set
LoopIgnoresStop(stopSet) == FALSE

\* _run_loop: the loop ends when it finds _stop_event set (the tests of the
\* while conditions and of line 103)
LoopExits(stopSet) == stopSet

\* shutdown() up to its await: both events set, every task of _inflight and
\* the loop task cancelled and put on the list that gather waits for
ShutdownCall ==
    /\ proc = "up"
    /\ proc' = "stopping"
    /\ stopEvent' = TRUE
    /\ wakeEvent' = TRUE
    /\ stop' = [tasks |-> inflight, loop |-> "cancelled"]
    /\ UNCHANGED <<accounts, today, poolVars, adminVars, run, events, wait, session, export, jobs, inflight,
                   task, ntasks, rel, upstream, max_workers, sent>>

\* a cancelled job task runs again: CancelledError is raised at its await,
\* passes _process_job (172-173), its generator is finalized and
\* _on_task_done takes it out of _inflight and sets the wake event
Unwind(j) ==
    /\ proc = "stopping"
    /\ j \in stop.tasks
    /\ accounts' = EndOfGenerator(accounts, task[j])
    /\ rel' = [rel EXCEPT ![j] = IF task[j].gen THEN Capped(@ + 1) ELSE @]
    /\ task' = [task EXCEPT ![j] = IdleTask]
    /\ ntasks' = [ntasks EXCEPT ![j] = IF @ > 0 THEN @ - 1 ELSE 0]
    /\ inflight' = inflight \ {j}
    /\ wakeEvent' = TRUE
    /\ stop' = [stop EXCEPT !.tasks = @ \ {j}]
    /\ jobs' = [jobs EXCEPT ![j] = CancelledRow(@)]
    /\ UNCHANGED <<today, poolVars, adminVars, run, events, wait, session, export, proc, stopEvent,
                   upstream, max_workers, sent>>

\* the cancelled loop task runs again, in its wait_for on the wake event
\* that shutdown() has set: CancelledError leaves _run_loop ("cancelled"),
\* or wait_for returns the result of the finished wait instead ("swallowed")
\* and the loop goes to its while tests.  Either way the finally clears the
\* wake event.
LoopUnwinds(out) ==
    /\ proc = "stopping"
    /\ stop.loop = "cancelled"
    /\ wakeEvent' = FALSE
    /\ IF out = "cancelled" \/ LoopExits(stopEvent)
       THEN /\ stop' = [stop EXCEPT !.loop = "ended"]
            /\ UNCHANGED <<jobs, inflight, task, ntasks>>
       ELSE LET c == RunLoopClaims(jobs, inflight, << >>)
            IN  /\ jobs' = c.jobs
                /\ inflight' = c.inflight
                /\ task' = [j \in JobIds |->
                               IF InSeq(c.started, j) THEN NewTask(FALSE, jobs[j]) ELSE task[j]]
                /\ ntasks' = [j \in JobIds |->
                                 IF InSeq(c.started, j) THEN Capped(ntasks[j] + 1)
                                 ELSE ntasks[j]]
                /\ stop' = [stop EXCEPT !.loop = "waiting"]
    /\ UNCHANGED <<accounts, today, poolVars, adminVars, run, events, wait, session, export, proc, stopEvent,
                   rel, upstream, max_workers, sent>>

\* gather returns when every task on its list is done; shutdown() clears
\* _inflight, drops the loop task and returns
ShutdownReturns ==
    /\ proc = "stopping"
    /\ stop.tasks = {}
    /\ stop.loop = "ended"
    /\ proc' = "stopped"
    /\ inflight' = {}
    /\ stop' = NoShutdown
    /\ UNCHANGED <<accounts, today, poolVars, adminVars, run, events, wait, session, export, jobs, stopEvent,
                   wakeEvent, task, ntasks, rel, upstream, max_workers, sent>>

StopNext ==
    \/ AddAccountRow
    \/ \E img \in BOOLEAN : Enqueue(img)
    \/ NotifyNewJob
    \/ Start
    \/ RunLoop
    \/ Crash
    \/ \E j \in JobIds : BeginFresh(j)
    \/ \E j \in JobIds : BeginResume(j)
    \/ \E j \in JobIds : BeginRaises(j)
    \/ \E j \in JobIds : Auth(j)
    \/ \E j \in JobIds : Upload(j)
    \/ \E j \in JobIds : Create(j)
    \/ \E j \in JobIds : Queued(j)
    \/ \E j \in JobIds : Poll(j)
    \/ \E j \in JobIds : HandleFailure(j)
    \/ \E j \in JobIds : HandleSuccess(j)
    \/ ShutdownCall
    \/ \E j \in JobIds : Unwind(j)
    \/ \E out \in {"cancelled", "swallowed"} : LoopUnwinds(out)
    \/ ShutdownReturns

\* a queue built with two workers
StopInit == Init /\ max_workers = MaxWorkers

StopSpec == StopInit /\ [][StopNext]_vars

\* the steps of the task of job j
JobStep(j) ==
    \/ BeginFresh(j) \/ BeginResume(j) \/ BeginRaises(j)
    \/ Auth(j) \/ Upload(j) \/ Create(j) \/ Queued(j) \/ Poll(j)
    \/ HandleFailure(j) \/ HandleSuccess(j)

\* the task of job j has a step to take: ENABLED <<JobStep(j)>>_vars written
\* out (at every position of a task some outcome changes the state)
TaskCanStep(j) == proc = "up" /\ task[j].pc # "idle"

\* WF_vars(JobStep(j)), with its ENABLED written out as TaskCanStep(j)
TaskFairness(j) == []<>(~TaskCanStep(j)) \/ []<><<JobStep(j)>>_vars

\* The queue with the scheduling asyncio gives a running process: the loop
\* task and every job task get to run (the loop's wait has a 1 s timeout,
\* every request of a job task ends or times out, the poll loop gives up
\* after timeout_sec).  Nothing is assumed about Crash, Shutdown, Start or
\* new jobs.
LiveSpec ==
    /\ LiveInit
    /\ [][Next]_vars
    /\ WF_vars(RunLoop)
    /\ \A j \in JobIds : TaskFairness(j)

(***************************************************************************)
(* AccountsSpec: add_account called again and again, with any cookie file  *)
(* and any outcome of the authentication probe                             *)
(***************************************************************************)
AccountsInit ==
    /\ accounts = [a \in {} |-> NewAccountRow]
    /\ today = 1
    /\ picker = [p \in Pickers |-> IdlePicker]
    /\ lastPick = PickReturn(NULL, "")
    /\ reserved = [a \in AccountIds |-> 0]
    /\ exhausted = [a \in AccountIds |-> FALSE]
    /\ QueueIdle
    /\ max_workers = 1
    /\ credentials = [a \in {} |-> NoCredential]
    /\ added = NoAdd
    /\ ClientIdle

\* add_account(cookies_json), the probe answering with probe
AddAccount(file, probe) ==
    LET r == AddAccountCall(accounts, credentials, file, probe)
    IN  /\ r.result = "stored" => Cardinality(DOMAIN accounts) < MaxStored
        /\ accounts' = r.accounts
        /\ credentials' = r.credentials
        /\ added' = [result |-> r.result, id |-> r.id]
        /\ UNCHANGED <<today, poolVars, queueVars, clientVars>>

AccountsNext == \E file \in CookieFiles, probe \in Probes : AddAccount(file, probe)

AccountsSpec == AccountsInit /\ [][AccountsNext]_vars

(***************************************************************************)
(* Properties of add_account, checked under AccountsSpec                   *)
(***************************************************************************)
\* the ids of the rows this step stores
NewRows == DOMAIN credentials' \ DOMAIN credentials

\* C17 as the specification states it: of two add_account calls whose cookie
\* files have the same canonical form, whatever identity the probe reports
\* for each, the second raises DuplicateAccountError and stores nothing: no
\* call stores a file whose canonical form is stored already, and no two
\* stored accounts have the same canonical cookies.
C17_AsStated ==
    /\ [](\A a, b \in DOMAIN credentials :
            (a # b /\ Canonicalizable(credentials[a].cookies_json)
                   /\ Canonicalizable(credentials[b].cookies_json))
            => Canonical(credentials[a].cookies_json) # Canonical(credentials[b].cookies_json))
    /\ [][\A n \in NewRows :
            ~SameCookiesStored(credentials, credentials'[n].cookies_json)]_vars

\* C18: in every state no two stored accounts have the same non-null
\* account_key; a call that stores a row stores one whose key is null or
\* new and leaves the other rows alone, and a call that stores nothing ends
\* with DuplicateAccountError or with the probe's failure, never with the
\* error of the unique index.
C18_UniqueKeys ==
    /\ [](\A a, b \in DOMAIN credentials :
            (a # b /\ credentials[a].account_key # NoKey)
            => credentials[a].account_key # credentials[b].account_key)
    /\ [][/\ \A n \in NewRows :
               /\ added' = [result |-> "stored", id |-> n]
               /\ \/ credentials'[n].account_key = NoKey
                  \/ GetAccountIdByKey(credentials, credentials'[n].account_key) = NULL
          /\ \A a \in DOMAIN credentials :
               a \in DOMAIN credentials' /\ credentials'[a] = credentials[a]
          /\ NewRows = {} => added'.result \in {"duplicate", "invalid"}]_vars

\* C18: a call has been refused as a duplicate while the table holds an
\* account keyed by an identity and an account keyed by its cookie hash
C18_Reached ==
    /\ added.result = "duplicate"
    /\ \E a, b \in DOMAIN credentials :
          /\ credentials[a].account_key.id > 0
          /\ credentials[b].account_key.id = 0
          /\ credentials[b].account_key # NoKey

(***************************************************************************)
(* RunSpec: one run of generate_video or resume_generation, its consumer   *)
(* asking for the next event until the generator ends.  An action is the   *)
(* generator's code from one request to upstream to the next.              *)
(***************************************************************************)
\* an event dict: the fields a consumer or the fingerprint can tell apart.
\* status holds the code of an error event; keys tells a progress event
\* built from a pending item ("pending": it has the queue/progress keys, set
\* or None) from the one built without ("bare").
Ev(name) == [event |-> name, status |-> "", pos |-> NULL, pct |-> NULL, keys |-> ""]
ErrorEv(code) == [Ev("error") EXCEPT !.status = code]

\* a run whose first event does not name its account
UnnamedAccount == Ev("auth")

\* the account event: generate_video after its pick, resume_generation
\* after loading the credentials
AccountEv == Ev("account")

\* what /backend/nf/pending holds for the task: nothing (the request failed
\* or the task is not listed, NoItem), or an item, with or without a
\* failure_reason
PendingItems ==
    [status : {"queued", "running", "failed", "canceled"}, pct : {0, 50}, pos : {1, 2},
     failure_reason : BOOLEAN]

\* _poll_generation: the pending item reports the failure of the task
PendingFailed(item) ==
    item.failure_reason \/ item.status \in {"failed", "error", "canceled"}

\* what the drafts list holds for the task: nothing (NoDraft), or an item:
\* its kind, whether it carries one of error_reason, failure_reason, reason,
\* reason_str, and whether it has a url and encodings
DraftItems ==
    [kind : {"sora_draft", "sora_error"}, reason : BOOLEAN, url : BOOLEAN,
     encodings : BOOLEAN]

\* a classification that looks at the kind of the draft alone
ErrorKindOnly(my) == my.kind = "sora_error"

\* _poll_generation: draft_has_error
DraftHasError(my) ==
    my.kind = "sora_error" \/ (my.reason /\ ~(my.url /\ my.encodings))

\* _poll_generation: what a cycle makes of the task's draft
DraftClass(my) ==
    IF DraftHasError(my) THEN "error_draft"
    ELSE IF my.url /\ my.encodings THEN "ready"
    ELSE "in_progress"

\* _poll_generation: is_rendering
IsRendering(item) == item.status \notin {"queued", "preprocessing"} \/ item.pct > 0

\* _poll_generation: the progress event built from a pending item
ProgressEvent(item) ==
    IF IsRendering(item)
    THEN [Ev("progress") EXCEPT !.status = "rendering", !.pct = item.pct, !.keys = "pending"]
    ELSE [Ev("progress") EXCEPT !.status = "queued", !.pos = item.pos, !.keys = "pending"]

\* _poll_generation: the progress event of a cycle without pending item
BareProgress == [Ev("progress") EXCEPT !.status = "queued", !.keys = "bare"]

\* finished and error end a run
Terminal(e) == e.event \in {"finished", "error"}
Terminated(evs) == \E i \in DOMAIN evs : Terminal(evs[i])

\* a generator that goes on to its drafts request after a terminal event
KeepsPolling == "drafts"

\* the return that follows the yield of a terminal event: the generator ends
Returned == "done"

\* the generator sends a request to upstream: late records one sent after a
\* terminal event was yielded
Called(r) == [r EXCEPT !.late = @ \/ Terminated(events)]

\* what the pending request, what the drafts request found, where recorded
SeenItem(r, item) == IF r.rec THEN [r EXCEPT !.item = item] ELSE r
SeenDraft(r, my) == IF r.rec THEN [r EXCEPT !.my = my] ELSE r

RunInit ==
    /\ accounts \in {[a \in {} |-> NewAccountRow], [a \in {1} |-> NewAccountRow]}
    /\ credentials = [a \in DOMAIN accounts |->
                         [cookies_json |-> StoredCookieFile(a), account_key |-> IdKey(a)]]
    /\ today = 1
    /\ picker = [p \in Pickers |-> IdlePicker]
    /\ lastPick = PickReturn(NULL, "")
    /\ reserved = [a \in AccountIds |-> 0]
    /\ exhausted = [a \in AccountIds |-> FALSE]
    /\ QueueIdle
    /\ max_workers = 1
    /\ added = NoAdd
    /\ ClientIdle

\* what no step of a run touches
RunFrame == UNCHANGED <<today, poolVars, queueVars, adminVars, wait, stop, session, export>>

\* the timeout_sec values a caller passes; the poll loop measures time in
\* poll intervals
TimeoutValues == (0 - 1)..MaxTimeout

\* a poll loop without its timeout test
NeverTimedOut(r) == FALSE

\* _poll_generation: the test at the top of each cycle
TimedOut(r) == r.timeout_sec > 0 /\ r.elapsed > r.timeout_sec

\* time.time() - start_time after one more asyncio.sleep(poll_interval_sec);
\* the model stops counting one interval past the largest timeout
Slept(r) == IF r.elapsed > MaxTimeout THEN r.elapsed ELSE r.elapsed + 1

\* the generator up to its first event: generate_video picks an account,
\* resume_generation(task_id, account_id=1) loads the account's credentials
GenStart(resume, image, timeout) ==
    /\ run.pc = "idle"
    /\ IF resume
       THEN /\ accounts' = accounts
            /\ IF 1 \in DOMAIN credentials
               THEN /\ run' = [run EXCEPT !.pc = "auth", !.resume = TRUE, !.acc = 1,
                                       !.timeout_sec = timeout]
                    /\ events' = Append(events, AccountEv)
               ELSE /\ run' = [run EXCEPT !.pc = Returned, !.resume = TRUE,
                                       !.timeout_sec = timeout]
                    /\ events' = Append(events, ErrorEv("account_missing"))
       ELSE LET r == PickAccountForGeneration(accounts, today)
            IN  /\ accounts' = r.accts
                /\ IF r.acc = NULL
                   THEN /\ run' = [run EXCEPT !.pc = Returned, !.image = image,
                                           !.timeout_sec = timeout]
                        /\ events' = Append(events,
                                        ErrorEv(IF r.reason = "daily_limit_all"
                                                THEN "no_accounts_daily_limit" ELSE r.reason))
                   ELSE /\ run' = [run EXCEPT !.pc = "auth", !.image = image, !.acc = r.acc,
                                           !.timeout_sec = timeout]
                        /\ events' = Append(events, AccountEv)
    /\ RunFrame

\* _ensure_access_token and the auth event; its failure is auth_failed in
\* generate_video and resume_failed (with the release of the finally) in
\* resume_generation
GenAuth(out) ==
    /\ run.pc = "auth"
    /\ CASE out = "ok" ->
              /\ run' = [Called(run) EXCEPT !.pc = IF run.resume THEN "poll"
                                                   ELSE IF run.image THEN "upload"
                                                   ELSE "create"]
              /\ events' = Append(events, Ev("auth"))
              /\ accounts' = accounts
         [] out = "fail" ->
              /\ run' = [Called(run) EXCEPT !.pc = Returned]
              /\ events' = Append(events,
                              ErrorEv(IF run.resume THEN "resume_failed" ELSE "auth_failed"))
              /\ accounts' = MarkGenerationFinished(accounts, run.acc)
    /\ RunFrame

\* the upload of the start image: the uploaded event, or the release and an
\* error event (bad status, missing id, exception)
GenUpload(out) ==
    /\ run.pc = "upload"
    /\ CASE out = "ok" ->
              /\ run' = [Called(run) EXCEPT !.pc = "create"]
              /\ events' = Append(events, Ev("uploaded"))
              /\ accounts' = accounts
         [] out = "fail" ->
              /\ run' = [Called(run) EXCEPT !.pc = Returned]
              /\ events' = Append(events, ErrorEv("upload_failed"))
              /\ accounts' = MarkGenerationFinished(accounts, run.acc)
    /\ RunFrame

\* POST /backend/nf/create: the queued event after mark_generation_created,
\* an error event after the release, or the request's exception, which
\* leaves the generator
GenCreate(out) ==
    /\ run.pc = "create"
    /\ CASE out = "accepted" ->
              /\ run' = [Called(run) EXCEPT !.pc = "poll"]
              /\ events' = Append(events, Ev("queued"))
              /\ accounts' = MarkGenerationCreated(accounts, run.acc, today)
         [] out = "daily_limit" ->
              /\ run' = [Called(run) EXCEPT !.pc = Returned]
              /\ events' = Append(events, ErrorEv("daily_limit"))
              /\ accounts' = MarkGenerationFinished(
                                 MarkAccountDailyExhausted(accounts, run.acc, today), run.acc)
         [] out = "refused" ->
              /\ run' = [Called(run) EXCEPT !.pc = Returned]
              /\ events' = Append(events, ErrorEv("create_failed"))
              /\ accounts' = MarkGenerationFinished(accounts, run.acc)
         [] out = "raises" ->
              /\ run' = [Called(run) EXCEPT !.pc = "raised"]
              /\ UNCHANGED <<events, accounts>>
    /\ RunFrame

\* the model follows a run without timeout up to MaxEvents events: from
\* there on upstream answers what makes the poll loop yield nothing
WithinEvents(evs) == run.timeout_sec > 0 \/ Len(evs) <= MaxEvents

\* _poll_generation from the top of its loop to the drafts request: the
\* timeout test, the pending request and the progress event of the cycle;
\* an ending run passes the finally that releases the slot
GenPollPending(timedout, item) ==
    /\ run.pc = "poll"
    /\ IF timedout
       THEN /\ run' = [run EXCEPT !.pc = Returned]
            /\ events' = Append(events, ErrorEv("timeout"))
            /\ accounts' = MarkGenerationFinished(accounts, run.acc)
       ELSE IF item # NoItem /\ PendingFailed(item)
       THEN /\ run' = [SeenItem(Called(run), item) EXCEPT !.pc = Returned]
            /\ events' = Append(events, ErrorEv("failed"))
            /\ accounts' = MarkGenerationFinished(accounts, run.acc)
       ELSE IF item # NoItem
       THEN /\ run' = [SeenItem(Called(run), item) EXCEPT
                           !.pc = "drafts", !.last_progress_key = ProgressEvent(item)]
            /\ events' = IF ProgressEvent(item) # run.last_progress_key
                         THEN Append(events, ProgressEvent(item)) ELSE events
            /\ accounts' = accounts
       ELSE /\ run' = [SeenItem(Called(run), item) EXCEPT !.pc = "drafts"]
            /\ events' = IF run.last_progress_key = NoEvent
                         THEN Append(events, BareProgress) ELSE events
            /\ accounts' = accounts
    /\ WithinEvents(events')
    /\ RunFrame

\* a draft_found event in every cycle that sees the draft
DraftFoundEveryCycle(evs) == Append(evs, Ev("draft_found"))

\* the draft_found event, yielded once, when the task's draft is first seen
WithDraftFound(evs) == IF run.found_gen_id THEN evs ELSE Append(evs, Ev("draft_found"))

\* _poll_generation from the drafts request to the end of the cycle.  The
\* request raises, is answered 401 ("auth_expired") or with another status
\* from 400 on ("poll_failed"), or is answered with a list that holds the
\* task's draft my or none (NoDraft); for a draft that is ready the details
\* request follows, which may raise ("v2_raises").  An exception of a
\* request leaves generate_video through its finally; resume_generation
\* turns it into the resume_failed event.
GenPollDrafts(out, my) ==
    /\ run.pc = "drafts"
    /\ out \in {"answered", "v2_raises"} \/ my = NoDraft
    /\ out = "v2_raises" => (my # NoDraft /\ DraftClass(my) = "ready")
    /\ LET r == SeenDraft(Called(run), my)
           cls == IF out # "answered" THEN out
                  ELSE IF my = NoDraft THEN "not_listed" ELSE DraftClass(my)
       IN  CASE cls \in {"raises", "v2_raises"} ->
                  /\ run' = [r EXCEPT
                                !.pc = IF run.resume THEN Returned ELSE "raised",
                                !.found_gen_id = @ \/ cls = "v2_raises"]
                  /\ events' = LET evs == IF cls = "v2_raises" THEN WithDraftFound(events)
                                          ELSE events
                               IN  IF run.resume THEN Append(evs, ErrorEv("resume_failed"))
                                   ELSE evs
                  /\ accounts' = MarkGenerationFinished(accounts, run.acc)
             [] cls \in {"auth_expired", "poll_failed"} ->
                  /\ run' = [r EXCEPT !.pc = Returned]
                  /\ events' = Append(events, ErrorEv(cls))
                  /\ accounts' = MarkGenerationFinished(accounts, run.acc)
             [] cls = "not_listed" ->
                  /\ run' = [r EXCEPT !.pc = "poll", !.elapsed = Slept(run)]
                  /\ UNCHANGED <<events, accounts>>
             [] cls = "in_progress" ->
                  /\ run' = [r EXCEPT !.pc = "poll", !.found_gen_id = TRUE,
                                      !.elapsed = Slept(run)]
                  /\ events' = WithDraftFound(events)
                  /\ accounts' = accounts
             [] cls = "error_draft" ->
                  /\ run' = [r EXCEPT !.pc = Returned, !.found_gen_id = TRUE]
                  /\ events' = Append(WithDraftFound(events), ErrorEv("processing_error"))
                  /\ accounts' = MarkGenerationFinished(accounts, run.acc)
             [] cls = "ready" ->
                  /\ run' = [r EXCEPT !.pc = Returned, !.found_gen_id = TRUE]
                  /\ events' = Append(WithDraftFound(events), Ev("finished"))
                  /\ accounts' = MarkGenerationFinished(accounts, run.acc)
    /\ WithinEvents(events')
    /\ RunFrame

RunNext ==
    \/ \E resume, image \in BOOLEAN, timeout \in TimeoutValues :
          GenStart(resume, image, timeout)
    \/ \E out \in {"ok", "fail"} : GenAuth(out)
    \/ \E out \in {"ok", "fail"} : GenUpload(out)
    \/ \E out \in {"accepted", "daily_limit", "refused", "raises"} : GenCreate(out)
    \/ \E item \in PendingItems \cup {NoItem} : GenPollPending(TimedOut(run), item)
    \/ \E out \in {"raises", "auth_expired", "poll_failed", "answered", "v2_raises"},
          my \in DraftItems \cup {NoDraft} : GenPollDrafts(out, my)

RunSpec == RunInit /\ [][RunNext]_vars

\* a run of which the model records what its requests to the two feeds found
ClassifyInit ==
    /\ accounts \in {[a \in {} |-> NewAccountRow], [a \in {1} |-> NewAccountRow]}
    /\ credentials = [a \in DOMAIN accounts |->
                         [cookies_json |-> StoredCookieFile(a), account_key |-> IdKey(a)]]
    /\ today = 1
    /\ picker = [p \in Pickers |-> IdlePicker]
    /\ lastPick = PickReturn(NULL, "")
    /\ reserved = [a \in AccountIds |-> 0]
    /\ exhausted = [a \in AccountIds |-> FALSE]
    /\ QueueIdle
    /\ max_workers = 1
    /\ added = NoAdd
    /\ run = [IdleRun EXCEPT !.rec = TRUE]
    /\ events = << >>
    /\ wait = IdleWait
    /\ stop = NoShutdown
    /\ session = NewSession
    /\ export = NoExport

ClassifySpec == ClassifyInit /\ [][RunNext]_vars

\* The run with a consumer that asks for every event (the async for of
\* _process_job) and requests that all end, by an answer or an exception:
\* the generator keeps taking steps while it has one to take.
RunLiveSpec == RunSpec /\ WF_vars(RunNext)

(***************************************************************************)
(* Properties of a generation run, checked under RunSpec                   *)
(***************************************************************************)
\* the positions of the progress events among the events yielded
ProgressAt == {i \in DOMAIN events : events[i].event = "progress"}

\* C19 as the specification states it: no two progress events that follow
\* one another in a run (no other progress event between them) are
\* identical, cycles without pending item included.
C19_AsStated ==
    \A i, j \in ProgressAt :
        (i < j /\ \A k \in ProgressAt : ~(i < k /\ k < j)) => events[i] # events[j]

\* C20: the events of a run hold at most one terminal event (finished or
\* error), it is the last event, the generator has ended when it has been
\* yielded, and no request goes to upstream after it.
C20_OneTerminal ==
    /\ \A i \in DOMAIN events : Terminal(events[i]) => i = Len(events)
    /\ Terminated(events) => run.pc = "done"
    /\ ~run.late

\* C20: a fresh run has gone through upload, creation, two different progress
\* events and the draft to its finished event, and has released its slot
C20_Reached ==
    /\ ~run.resume
    /\ Len(events) = 7
    /\ events[3].event = "uploaded"
    /\ events[Len(events)].event = "finished"
    /\ events[Len(events) - 1].event = "draft_found"
    /\ run.pc = "done"
    /\ accounts[run.acc].active_generations = 0

\* C22 as the specification states it: a fresh generate_video run never
\* yields an account event.
C22_AsStated == ~run.resume => \A i \in DOMAIN events : events[i].event # "account"

\* C22: fresh and resumed runs alike yield the account event once, as their
\* first event, when they have got their account (the pick succeeded, the
\* credentials of the resumed account exist); a run that got none yields no
\* account event, only its error event.
C22_AccountFirst ==
    /\ \A i \in DOMAIN events : events[i].event = "account" => i = 1
    /\ (run.pc # "idle" /\ run.acc # NULL) => events[1].event = "account"
    /\ (run.pc # "idle" /\ run.acc = NULL)
           => (Len(events) = 1 /\ events[1].event = "error" /\ run.pc = "done")

\* C22: a fresh run, account event first, has had its creation accepted and
\* polls
C22_Reached ==
    /\ ~run.resume
    /\ run.pc = "poll"
    /\ events[1] = AccountEv
    /\ \E i \in DOMAIN events : events[i].event = "queued"

\* the run is in its poll loop
Polling == run.pc \in {"poll", "drafts"}

\* C21 as the specification states it: whatever timeout_sec the caller
\* passed, a run that has entered its poll loop leaves it.
C21_AsStated == (run.pc = "poll") ~> ~Polling

\* C21: with a timeout_sec above 0, a run that has entered its poll loop
\* leaves it, by a terminal event or an exception of a request; a cycle
\* that starts after more than timeout_sec yields the error event with code
\* timeout as the run's last event and sends no request; and no run is
\* still polling a cycle after its timeout was exceeded.
C21_Terminates ==
    /\ (run.pc = "poll" /\ run.timeout_sec > 0) ~> ~Polling
    /\ [][(run.pc = "poll" /\ run.timeout_sec > 0 /\ run.elapsed > run.timeout_sec)
            => /\ events' = Append(events, ErrorEv("timeout"))
               /\ run'.pc = "done"
               /\ run'.late = run.late]_vars
    /\ [](run.pc = "drafts" /\ run.timeout_sec > 0 => run.elapsed <= run.timeout_sec)

\* C21: a run with timeout_sec = 2 whose task upstream never reported on has
\* ended with the timeout error after three cycles
C21_Reached ==
    /\ run.pc = "done"
    /\ run.timeout_sec = MaxTimeout
    /\ run.elapsed = MaxTimeout + 1
    /\ events[Len(events)] = ErrorEv("timeout")
    /\ ~run.found_gen_id
    /\ \A i \in DOMAIN events : events[i].event = "progress" => events[i] = BareProgress

\* every event named b among the events yielded has an event named a
\* before it
Precedes(a, b) ==
    \A j \in DOMAIN events :
        events[j].event = b => \E i \in 1..(j - 1) : events[i].event = a

\* how many events named a were yielded
Count(a) == Cardinality({i \in DOMAIN events : events[i].event = a})

\* C33: in a fresh run auth comes before uploaded; uploaded comes only in a
\* run with an input image, and then before queued; queued comes before
\* every progress, draft_found and finished event; queued and draft_found
\* come at most once; and an error event, at whatever stage, is the last
\* event of the run.
C33_EventOrder ==
    ~run.resume =>
        /\ Precedes("auth", "uploaded")
        /\ Count("uploaded") > 0 => run.image
        /\ run.image => Precedes("uploaded", "queued")
        /\ Precedes("auth", "queued")
        /\ Precedes("queued", "progress")
        /\ Precedes("queued", "draft_found")
        /\ Precedes("queued", "finished")
        /\ Count("queued") <= 1
        /\ Count("draft_found") <= 1
        /\ \A i \in DOMAIN events : events[i].event = "error" => i = Len(events)

\* C33: a fresh run with an input image has yielded uploaded and queued,
\* has found its draft and has yielded a progress event in a later cycle
C33_Reached ==
    /\ ~run.resume
    /\ run.image
    /\ Count("uploaded") = 1
    /\ run.pc = "poll"
    /\ \E i, j \in DOMAIN events :
          i < j /\ events[i].event = "draft_found" /\ events[j].event = "progress"

\* this step of the run yields a terminal event of this name
Yields(name) ==
    Len(events') > Len(events) /\ events'[Len(events')].event = name

\* the pending item seen in this step reports a failure; the draft seen in
\* this step is an error; it has both success fields
FeedFailure == run'.item # NoItem /\ (run'.item.failure_reason
                  \/ run'.item.status \in {"failed", "error", "canceled"})
DraftError ==
    run'.my # NoDraft /\ (run'.my.kind = "sora_error"
                             \/ (run'.my.reason /\ ~(run'.my.url /\ run'.my.encodings)))
DraftSuccess == run'.my # NoDraft /\ run'.my.url /\ run'.my.encodings

\* C34 as the specification states it: in the first half of a poll cycle an
\* error event is yielded exactly when the pending item reports a failure,
\* and then the drafts list is not asked for; in the second half an error
\* event is yielded exactly when the task's draft is an error, a finished
\* event only when the draft has both success fields and is no error; in
\* all other cases the cycle yields no terminal event.
C34_AsStated ==
    [][/\ run.pc = "poll" =>
            /\ Yields("error") <=> FeedFailure
            /\ Yields("error") => run'.pc = "done"
            /\ ~Yields("finished")
       /\ run.pc = "drafts" =>
            /\ Yields("error") <=> DraftError
            /\ Yields("finished") => (DraftSuccess /\ ~DraftError)]_vars

\* C34: the same for every cycle that starts before the timeout and whose
\* requests are answered: the classification of the two feeds is as stated;
\* besides it, a cycle that starts after the timeout yields the error
\* timeout, a drafts request answered 401 or with another status from 400
\* on yields the error auth_expired or poll_failed, and a request that
\* raises in a resumed run yields the error resume_failed.
C34_Classified ==
    [][/\ (run.pc = "poll" /\ ~TimedOut(run)) =>
            /\ Yields("error") <=> FeedFailure
            /\ Yields("error") => (run'.pc = "done" /\ run'.my = run.my)
            /\ ~Yields("finished")
       /\ (run.pc = "poll" /\ TimedOut(run)) =>
            (Yields("error") /\ events'[Len(events')].status = "timeout")
       /\ run.pc = "drafts" =>
            /\ DraftError => Yields("error")
            /\ Yields("error") =>
                  \/ DraftError
                  \/ /\ events'[Len(events')].status \in {"auth_expired", "poll_failed"}
                     /\ run'.my = NoDraft
                  \/ /\ events'[Len(events')].status = "resume_failed"
                     /\ run.resume
                     /\ run'.my = NoDraft \/ (DraftSuccess /\ ~DraftError)
            /\ Yields("finished") => (DraftSuccess /\ ~DraftError)]_vars

\* C34: a run has ended with the finished event on a draft that carries a
\* failure reason together with url and encodings, in a cycle whose pending
\* request found the task, without a failure
C34_Reached ==
    /\ run.rec
    /\ run.pc = "done"
    /\ events[Len(events)].event = "finished"
    /\ run.my = [kind |-> "sora_draft", reason |-> TRUE, url |-> TRUE, encodings |-> TRUE]
    /\ run.item # NoItem

(***************************************************************************)
(* WaitSpec: the task of one job as far as its progress message goes:      *)
(* _process_job handles the events of its generator, in any order the      *)
(* generator may yield them, and every call to Telegram succeeds or is     *)
(* refused with a TelegramAPIError.                                        *)
(***************************************************************************)
\* an edit that keeps the handle when Telegram refuses
EditKeepingHandle(w, out) ==
    IF ~w.held THEN w
    ELSE [w EXCEPT !.late = @ \/ w.failed, !.failed = @ \/ out = "refused"]

\* _edit_wait_message: nothing without a handle; else the call to Telegram,
\* and on TelegramAPIError the handle is cleared in the job dict and in the
\* store
EditWaitMessage(w, out) ==
    IF ~w.held THEN w
    ELSE IF out = "refused"
    THEN [w EXCEPT !.late = @ \/ w.failed, !.failed = TRUE,
                   !.held = FALSE, !.stored = FALSE]
    ELSE [w EXCEPT !.late = @ \/ w.failed]

\* _delete_wait_message: nothing without a handle; else the call to
\* Telegram, and whatever its outcome the handle is cleared (finally)
DeleteWaitMessage(w, out) ==
    IF ~w.held THEN w
    ELSE [w EXCEPT !.late = @ \/ w.failed, !.failed = @ \/ out = "refused",
                   !.held = FALSE, !.stored = FALSE]

\* the event names _handle_event tells apart (progress by its status)
EventNames ==
    {"account", "auth", "uploaded", "queued", "progress_queued", "progress_rendering",
     "draft_found", "error", "finished"}

\* _handle_event: the events whose handling edits the progress message
Edits(ev) == ev \in EventNames \ {"account", "error", "finished"}

\* _handle_event: the status the job has after the event, from update_job
\* of lines 221 and 226 and the last update_job of the handler called
StatusAfter(status, ev) ==
    IF ev = "error" THEN "failed" ELSE IF ev = "finished" THEN "completed" ELSE status

\* _handle_event: should_continue
ShouldContinue(ev) == ev \notin {"error", "finished"}

\* one more event handled, in the counters of the model
Counted(w, ev) ==
    [w EXCEPT !.last = ev,
              !.handled = IF @ < MaxEvents THEN @ + 1 ELSE @,
              !.since = IF w.failed /\ @ < 2 THEN @ + 1 ELSE @]

\* _process_job up to its try: the job row is read (with or without a
\* wait_message_id) and the first edit is made
WaitStart(handle, out) ==
    /\ wait.pc = "idle"
    /\ wait.handled = 0
    /\ wait' = [EditWaitMessage([wait EXCEPT !.stored = handle, !.held = handle], out)
                   EXCEPT !.pc = "events", !.last = "start", !.handled = 1]
    /\ UNCHANGED <<accounts, today, poolVars, queueVars, adminVars, run, events, stop, session, export>>

\* _handle_event on an event of the generator, _handle_failure or
\* _handle_success included; after MaxEvents events the generator ends its
\* run
WaitEvent(ev, out) ==
    /\ wait.pc = "events"
    /\ wait.handled < MaxEvents \/ ~ShouldContinue(ev)
    /\ LET w == IF Edits(ev) THEN EditWaitMessage(wait, out)
                ELSE IF ShouldContinue(ev) THEN wait
                ELSE DeleteWaitMessage(wait, out)
       IN  wait' = [Counted(w, ev) EXCEPT
                       !.status = StatusAfter(wait.status, ev),
                       !.pc = IF ShouldContinue(ev) THEN "events" ELSE "idle"]
    /\ UNCHANGED <<accounts, today, poolVars, queueVars, adminVars, run, events, stop, session, export>>

WaitNext ==
    \/ \E handle \in BOOLEAN, out \in {"ok", "refused"} : WaitStart(handle, out)
    \/ \E ev \in EventNames, out \in {"ok", "refused"} : WaitEvent(ev, out)

WaitSpec == LiveInit /\ [][WaitNext]_vars

\* how a call of _handle_failure ends: the error message is delivered and the
\* row updated ("ok"), the send is refused with a TelegramAPIError that is
\* passed over and the row updated ("unsent"), or something else is raised,
\* before the message was sent ("raises") or after it ("raises_after")
FailureOutcomes == {"ok", "unsent", "raises", "raises_after"}

\* the error messages one call of _handle_failure delivers
Tells(out) == IF out \in {"ok", "raises_after"} THEN 1 ELSE 0

\* the call reaches its last update_job(status="failed", image=None)
Marks(out) == out \in {"ok", "unsent"}

\* _process_job when the async for ends with no terminal event handled:
\* _handle_failure("unknown state") at line 171, inside the try; an
\* exception it raises is caught at 174 and _handle_failure is called once
\* more (second), and what that call raises ends the task
WaitEnds(del, first, second) ==
    /\ wait.pc = "events"
    /\ LET again == ~Marks(first)
           w == Counted(DeleteWaitMessage(wait, del), "end")
       IN  wait' = [w EXCEPT
                       !.pc = "idle",
                       !.status = IF Marks(first) \/ Marks(second) THEN "failed" ELSE @,
                       !.told = Tells(first) + (IF again THEN Tells(second) ELSE 0)]
    /\ UNCHANGED <<accounts, today, poolVars, queueVars, adminVars, run, events, stop, session, export>>

EndNext ==
    \/ WaitNext
    \/ \E del \in {"ok", "refused"}, first \in FailureOutcomes, second \in FailureOutcomes :
          WaitEnds(del, first, second)

\* the job task over a generator that may end without a terminal event
EndSpec == LiveInit /\ [][EndNext]_vars

\* C31: when the event stream ended with no finished and no error event,
\* the job is stored as failed and the requester has got an error message.
C31_AsStated ==
    wait.last = "end" => (wait.status = "failed" /\ wait.told > 0)

Starting == proc # "up" /\ proc' = "up"

\* shutdown() runs in this step
Stopping == proc = "up" /\ proc' = "stopped"

\* the task of job j ends in this step while the process lives on
RunEnds(j) == task[j].pc # "idle" /\ task'[j].pc = "idle" /\ proc' # "down"

\* the task of job j takes a step of its own
OwnStep(j) == task[j].pc # "idle" /\ task'[j] # task[j] /\ proc' = proc

Max0(n) == IF n > 0 THEN n ELSE 0

\* C2 as the specification states it: mark_generation_finished is called
\* exactly once for every successful pick of a generation run, never twice
\* and, when the run has ended by event, exception or cancellation, not zero
\* times.
C2_AsStated ==
    [][\A j \in JobIds :
          /\ rel'[j] <= 1
          /\ (RunEnds(j) /\ ~task[j].resume /\ task[j].acc # NULL) => rel'[j] = 1]_vars

\* C3 as the specification states it: when shutdown cancels job tasks at
\* authentication, upload, the creation request or in the poll loop, every
\* slot such a task holds is released: active_generations of its account
\* goes down by one for each of them (not below 0).
C3_AsStated ==
    [][Stopping =>
          \A a \in DOMAIN accounts :
              accounts'[a].active_generations <=
                  Max0(accounts[a].active_generations
                       - Cardinality({j \in inflight :
                                        /\ task[j].acc = a
                                        /\ task[j].pc \in {"auth", "upload", "create", "poll"}}))]_vars

\* C4 as the specification states it: a stored status of completed or failed
\* is never changed by a later step of the queue.
C4_AsStated ==
    [][\A j \in JobIds :
          jobs[j].status \in {"completed", "failed"} => jobs'[j].status = jobs[j].status]_vars

\* C5: a job that start() finds running with task_id and account_id gets a
\* resumed task bound to the stored task_id and account_id and keeps its row;
\* a resumed task goes from its start to authentication and from there to
\* polling, never to upload, creation or the queued event, and no step of it
\* raises the count of accepted creation requests, changes the stored
\* task_id, or changes any account's daily_generations.
C5_Resume ==
    [][/\ Starting =>
            \A j \in JobIds :
                (jobs[j].status = "running" /\ jobs[j].task_id # NULL /\ jobs[j].account_id # NULL)
                => /\ task'[j] = [pc |-> "new", resume |-> TRUE, acc |-> jobs[j].account_id,
                                  tid |-> jobs[j].task_id, gen |-> FALSE, exc |-> FALSE]
                   /\ jobs'[j] = jobs[j]
                   /\ j \in inflight'
       /\ \A j \in JobIds :
            (task[j].resume /\ OwnStep(j))
            => /\ task'[j].pc \in {"idle", "auth", "poll", "fail", "success"}
               /\ task'[j].pc = "auth" => task[j].pc = "new"
               /\ task'[j].pc = "poll" => task[j].pc \in {"auth", "poll"}
               /\ task'[j].pc = "success" => task[j].pc = "poll"
               /\ task'[j].pc # "idle" => task'[j].tid = jobs[j].task_id
               /\ upstream' = upstream
               /\ jobs'[j].task_id = jobs[j].task_id
               /\ \A a \in DOMAIN accounts :
                    accounts'[a].daily_generations = accounts[a].daily_generations]_vars

\* C5: a resumed run has polled its task to the finished event; upstream
\* accepted one creation for the job and the account counts one generation
C5_Reached ==
    \E j \in JobIds :
        /\ task[j].resume
        /\ task[j].pc = "success"
        /\ upstream[j] = 1
        /\ task[j].tid = jobs[j].task_id
        /\ accounts[task[j].acc].daily_generations = 1

\* a job whose row carries no trace of an attempt
Cleared(row) == row.task_id = NULL /\ row.account_id = NULL /\ row.progress = NULL

\* C6: a job that start() finds running without task_id or without
\* account_id is set back to queued with task_id, account_id and progress
\* cleared and gets no task; and while the process stays up, a queued job
\* does not stay queued for ever: the loop claims it.
C6_Requeue ==
    /\ [][Starting =>
            \A j \in JobIds :
                (jobs[j].status = "running" /\ (jobs[j].task_id = NULL \/ jobs[j].account_id = NULL))
                => /\ jobs'[j].status = "queued"
                   /\ Cleared(jobs'[j])
                   /\ jobs'[j].image = jobs[j].image
                   /\ task'[j].pc = "idle"
                   /\ wakeEvent']_vars
    /\ \A j \in JobIds :
          (jobs[j].status = "queued" /\ proc = "up" /\ Cleared(jobs[j]))
              ~> (jobs[j].status = "running" \/ proc # "up")

\* C6: job 1, requeued by start(), has been claimed again: its new task has
\* not picked an account yet, its row is cleared, and the account still
\* counts the reservation of the attempt the crash cut off
C6_Redispatched ==
    /\ jobs[1].status = "running"
    /\ Cleared(jobs[1])
    /\ task[1].pc = "new" /\ ~task[1].resume
    /\ jobs[2].status = "none"
    /\ \E a \in DOMAIN accounts : accounts[a].active_generations = 1

\* C7: no job id ever has more than one task, and a job that has a task is
\* not queued, so the loop cannot claim it (it claims queued jobs only).
C7_OneTaskPerJob ==
    \A j \in JobIds :
        /\ ntasks[j] <= 1
        /\ ntasks[j] = 1 <=> task[j].pc # "idle"
        /\ task[j].pc # "idle" => (j \in inflight /\ jobs[j].status \in {"running", "completed", "failed"})

\* C7: a resumed job and a job claimed by the loop are in flight together
C7_Reached ==
    \E j, k \in JobIds :
        /\ task[j].pc # "idle" /\ task[j].resume
        /\ task[k].pc # "idle" /\ ~task[k].resume
        /\ Cardinality(inflight) <= max_workers

\* C8 as the specification states it: after start() the number of in-flight
\* job tasks never exceeds max_workers.
C8_AsStated ==
    proc = "up" => Cardinality({j \in JobIds : task[j].pc # "idle"}) <= max_workers

\* C9: a step that moves a queued job to running leaves no job with a
\* smaller id queued that was queued before the step.
C9_Fifo ==
    [][\A i, j \in JobIds :
          (i < j /\ jobs[i].status = "queued" /\ jobs[j].status = "queued"
                 /\ jobs'[j].status = "running")
          => jobs'[i].status = "running"]_vars

\* C9: jobs 1 and 2, both requeued by start() after a crash that cut off
\* their attempts (the account still counts both), have been claimed
C9_Reached ==
    /\ task[1].pc = "new" /\ ~task[1].resume
    /\ task[2].pc = "new" /\ ~task[2].resume
    /\ \E a \in DOMAIN accounts : accounts[a].active_generations = 2

\* upstream accepts the creation request of job j in this step
Accepted(j) == upstream'[j] # upstream[j]

\* the fresh run of job j ends in this step with an error event before
\* acceptance: auth_failed, an upload error, a refused creation request or a
\* creation answer without task id
EndsBeforeAcceptance(j) ==
    /\ ~task[j].resume
    /\ task[j].pc \in {"auth", "upload", "create"}
    /\ task'[j].pc = "fail"
    /\ ~task'[j].exc

\* C15: the step in which upstream accepts the creation request of a run
\* (the run goes on to the queued event) raises daily_generations of the
\* run's account by exactly one and of no other account, and no other step
\* raises a daily count by one; a run that ends with an error event before
\* acceptance releases its slot and leaves daily_generations of every account
\* as it was, except that a daily-limit refusal of the creation request sets
\* the count of its account to DAILY_LIMIT.
C15_DailyCharge ==
    [][/\ \A j \in JobIds :
             /\ Accepted(j) =>
                   /\ upstream'[j] = upstream[j] + 1
                   /\ task[j].pc = "create" /\ task'[j].pc = "queued"
                   /\ \A a \in DOMAIN accounts :
                         accounts'[a].daily_generations =
                             accounts[a].daily_generations + (IF a = task[j].acc THEN 1 ELSE 0)
             /\ EndsBeforeAcceptance(j) =>
                   /\ \A a \in DOMAIN accounts \ {task[j].acc} :
                         accounts'[a].daily_generations = accounts[a].daily_generations
                   /\ accounts'[task[j].acc].active_generations =
                         Max0(accounts[task[j].acc].active_generations - 1)
                   /\ \/ accounts'[task[j].acc].daily_generations =
                            accounts[task[j].acc].daily_generations
                      \/ /\ task[j].pc = "create"
                         /\ accounts'[task[j].acc].daily_generations = DAILY_LIMIT
       /\ \A a \in DOMAIN accounts :
             accounts'[a].daily_generations # accounts[a].daily_generations =>
                 \/ \E j \in JobIds : Accepted(j) /\ task[j].acc = a
                 \/ \E j \in JobIds :
                       /\ EndsBeforeAcceptance(j) /\ task[j].pc = "create" /\ task[j].acc = a
                       /\ accounts'[a].daily_generations = DAILY_LIMIT]_vars

\* C15: the run of job j has ended with an error event before acceptance and
\* has released its slot, on an account that counts the one generation
\* upstream accepted for the other job
C15_Reached ==
    \E j, k \in JobIds :
        /\ j # k
        /\ task[j].pc = "fail" /\ ~task[j].exc /\ ~task[j].resume
        /\ task[j].acc # NULL
        /\ upstream[j] = 0 /\ rel[j] = 1
        /\ upstream[k] = 1
        /\ task[k].pc = "poll" /\ task[k].acc = task[j].acc
        /\ accounts[task[j].acc].daily_generations = 1
        /\ accounts[task[j].acc].active_generations = 1

\* the row of job j shows that the job has been handed to a worker: only
\* fetch_next_queued_job takes a row out of queued
Dispatched(j) == jobs[j].status \in {"running", "completed", "failed"}

\* C23 as the specification states it: a job's stored account_id is set if
\* and only if the job has been dispatched to a worker.
C23_AsStated == \A j \in JobIds : jobs[j].account_id # NULL <=> Dispatched(j)

\* C23: a stored account_id is set only for a job that has been dispatched;
\* a queued row leaves queued only by being claimed, which gives it a task
\* and leaves account_id null; account_id becomes set only in the step in
\* which the job's task handles the account event of its run, to the
\* account the run works on; and it is set back to null only by the requeue
\* of start().
C23_AccountIdStored ==
    /\ [](\A j \in JobIds : jobs[j].account_id # NULL => Dispatched(j))
    /\ [][\A j \in JobIds :
            /\ (jobs[j].status = "queued" /\ jobs'[j].status # "queued")
                  => /\ jobs'[j].status = "running"
                     /\ j \in inflight' /\ task'[j].pc = "new"
                     /\ jobs'[j].account_id = NULL
            /\ (jobs[j].account_id = NULL /\ jobs'[j].account_id # NULL)
                  => /\ task[j].pc = "new" /\ task'[j].pc = "auth"
                     /\ jobs'[j].account_id = task'[j].acc
            /\ (jobs[j].account_id # NULL /\ jobs'[j].account_id = NULL)
                  => (Starting /\ jobs'[j].status = "queued")]_vars

\* C23: job 1 was dispatched while the pool was empty and has failed without
\* an account_id; job 2, dispatched after an account was added, runs with
\* its account_id stored
C23_Reached ==
    /\ jobs[1].status = "failed" /\ jobs[1].account_id = NULL /\ task[1].pc = "idle"
    /\ jobs[2].status = "running" /\ jobs[2].account_id # NULL
    /\ task[2].acc = jobs[2].account_id

\* C24 as the specification states it: in every reachable state, the ones
\* after a crash between the creation request and the handling of the
\* queued event included, a job's stored task_id is set if and only if
\* upstream has accepted a creation request of the job.
C24_AsStated == \A j \in JobIds : jobs[j].task_id # NULL <=> upstream[j] > 0

\* C25 as the specification states it: a job task that ends by itself,
\* whatever exception was raised in it, leaves its job failed (or completed,
\* when no exception was raised), never running; the scheduling loop is not
\* stopped by it.
C25_AsStated ==
    [][\A j \in JobIds :
          (RunEnds(j) /\ proc' = proc)
          => /\ jobs'[j].status \in {"failed", "completed"}
             /\ stopEvent' = stopEvent]_vars

\* job j, with its result messages recorded, has reached completed or
\* failed and its task has ended
Settled(j) ==
    sent[j].on /\ jobs[j].status \in {"completed", "failed"} /\ task[j].pc = "idle"

\* C26 as the specification states it: a job that has reached completed or
\* failed has had exactly one result message delivered to its requester,
\* never none and never a success message and an error message both.
C26_AsStated ==
    \A j \in JobIds : Settled(j) => sent[j].ok + sent[j].err = 1

\* C28: shutdown() returns only when the loop task has ended and no job
\* task is left, neither on its list nor anywhere else; between its call and
\* its return no job task takes a step other than unwinding and no task is
\* started; after its return _inflight is empty and no job has a task; and
\* from its call on no queued job is claimed.
C28_ShutdownWaits ==
    /\ [][(proc = "stopping" /\ proc' = "stopped")
            => /\ stop.loop = "ended"
               /\ \A j \in JobIds : task[j].pc = "idle" /\ ntasks[j] = 0
               /\ inflight = {}]_vars
    /\ [][proc = "stopping"
            => \A j \in JobIds :
                  /\ task'[j] # task[j] => (j \in stop.tasks /\ task'[j] = IdleTask)
                  /\ jobs'[j] = jobs[j]]_vars
    /\ [](proc = "stopped" => (inflight = {} /\ \A j \in JobIds : task[j].pc = "idle"))
    /\ [](proc = "stopping" => stop.tasks = {j \in JobIds : task[j].pc # "idle"})
    /\ [][(proc # "up" /\ proc # "down")
            => (\A j \in JobIds :
                   (jobs[j].status = "queued") => (jobs'[j].status = "queued"))]_vars

\* C28: shutdown() has returned after cancelling two job tasks, one in its
\* poll loop, while a job was queued (it stays queued)
C28_Reached ==
    /\ proc = "stopped"
    /\ stopEvent
    /\ \E j \in JobIds : jobs[j].status = "running" /\ rel[j] = 1
    /\ \E j \in JobIds : jobs[j].status = "queued"

\* a turn of the loop taken now claims the oldest queued job when a worker
\* is free, and leaves no queued job behind while a worker stays free
LoopClaimsNext ==
    (proc = "up" /\ ~stopEvent /\ NextQueued(jobs) # NULL /\ Cardinality(inflight) < max_workers)
    => LET c == RunLoopClaims(jobs, inflight, << >>)
       IN  /\ Len(c.started) > 0
           /\ c.started[1] = NextQueued(jobs)
           /\ NextQueued(c.jobs) = NULL \/ Cardinality(c.inflight) = max_workers

\* C29: while the queue is started, a queued job with no wake signal
\* pending (none sent, or the signal consumed earlier) is claimed all the
\* same; the loop's wait comes back whether or not the wake event is set,
\* and a turn of the loop claims the oldest queued job when a worker is
\* free; and the end of a job task sets the wake event.
C29_FallbackPoll ==
    /\ \A j \in JobIds :
          (jobs[j].status = "queued" /\ proc = "up" /\ ~wakeEvent)
              ~> (jobs[j].status # "queued" \/ proc # "up")
    /\ [](LoopClaimsNext)
    /\ []((proc = "up" /\ ~stopEvent) => WaitReturns(wakeEvent))
    /\ [][\A j \in JobIds : (RunEnds(j) /\ proc' = proc) => wakeEvent']_vars

\* C29: with one worker, job 2 has been claimed after the task of job 1
\* ended, and no wake signal is pending
C29_Reached ==
    /\ max_workers = 1
    /\ jobs[1].status \in {"completed", "failed"} /\ task[1].pc = "idle"
    /\ jobs[2].status = "running" /\ task[2].pc = "new" /\ ~task[2].resume
    /\ ~wakeEvent
    /\ proc = "up"

(***************************************************************************)
(* TokenSpec: concurrent calls on one _AsyncBrowserSession                 *)
(* (utils/sora_client.py).  Each call runs _ensure_access_token; the steps *)
(* are the runs between two awaits: up to the refresh lock, from the lock  *)
(* to the GET of /api/auth/session, and from its answer to the return.     *)
(***************************************************************************)

\* now < self._token_exp_ts - 60, for a session that has a token and a
\* decoded expiry
TokenValid(s) == s.access_token # NULL /\ s.exp = "far"

\* the force argument _ensure_access_token passes to _refresh_access_token
ForceRefresh == TRUE

\* _refresh_access_token, the test inside the lock: return without a
\* request
SkipsRefresh(force, s) == ~force /\ TokenValid(s)

\* _refresh_access_token from the lock on: caller c holds the lock and
\* either returns at once or sends the GET and awaits its answer
EnterLock(s, c) ==
    IF SkipsRefresh(ForceRefresh, s)
    THEN [s EXCEPT !.call[c] = [pc |-> "returned", got |-> s.access_token]]
    ELSE [s EXCEPT !.lock = c, !.requests = @ + 1, !.call[c].pc = "request"]

\* a call starts: _ensure_access_token returns the cached token when it is
\* valid; otherwise _refresh_access_token(force=True), which takes the
\* lock when it is free and waits for it when it is not
Call(c) ==
    /\ session.call[c].pc = "idle"
    /\ session.requests < MaxRefresh
    /\ session' =
          IF TokenValid(session)
          THEN [session EXCEPT !.call[c] = [pc |-> "returned", got |-> session.access_token]]
          ELSE IF session.lock = NULL
          THEN EnterLock(session, c)
          ELSE [session EXCEPT !.call[c].pc = "waiting"]
    /\ UNCHANGED <<accounts, today, poolVars, queueVars, adminVars, run, events, wait, stop, export>>

\* the lock is released and a waiting caller gets it
Acquire(c) ==
    /\ session.call[c].pc = "waiting"
    /\ session.lock = NULL
    /\ session' = EnterLock(session, c)
    /\ UNCHANGED <<accounts, today, poolVars, queueVars, adminVars, run, events, wait, stop, export>>

\* the answer to the GET: a token whose exp decodes ("far"), a token
\* without a decodable exp ("undated"), or no token (RuntimeError); the
\* lock is released on every path, and _ensure_access_token returns
\* self.access_token
Respond(c, out) ==
    /\ session.call[c].pc = "request"
    /\ session' =
          IF out = "error"
          THEN [session EXCEPT !.lock = NULL, !.call[c].pc = "raised"]
          ELSE [session EXCEPT !.lock = NULL,
                               !.access_token = session.requests,
                               !.exp = IF out = "far" THEN "far" ELSE "none",
                               !.call[c] = [pc |-> "returned", got |-> session.requests]]
    /\ UNCHANGED <<accounts, today, poolVars, queueVars, adminVars, run, events, wait, stop, export>>

\* the caller goes on and may call again
CallEnds(c) ==
    /\ session.call[c].pc \in {"returned", "raised"}
    /\ session' = [session EXCEPT !.call[c].pc = "idle"]
    /\ UNCHANGED <<accounts, today, poolVars, queueVars, adminVars, run, events, wait, stop, export>>

\* time passes: the token enters the 60 s margin before its expiry
Expiring ==
    /\ session.exp = "far"
    /\ session' = [session EXCEPT !.exp = "near"]
    /\ UNCHANGED <<accounts, today, poolVars, queueVars, adminVars, run, events, wait, stop, export>>

TokenNext ==
    \/ \E c \in Callers : Call(c)
    \/ \E c \in Callers : Acquire(c)
    \/ \E c \in Callers, out \in {"far", "undated", "error"} : Respond(c, out)
    \/ \E c \in Callers : CallEnds(c)
    \/ Expiring

TokenSpec == LiveInit /\ [][TokenNext]_vars

\* C30: a caller that waited for the refresh lock while another caller
\* refreshed reuses the token that caller obtained: no refresh request is
\* under way while the session holds a token outside the expiry margin.
C30_AsStated ==
    \A c \in Callers : session.call[c].pc = "request" => ~TokenValid(session)

(***************************************************************************)
(* Further properties of the job queue                                     *)
(***************************************************************************)
\* C32: a job that is stored as completed or failed and whose task has
\* ended has no input image stored any more.
C32_AsStated ==
    \A j \in JobIds :
        (jobs[j].status \in {"completed", "failed"} /\ task[j].pc = "idle")
            => ~jobs[j].image
\* the task of job j is that of a fresh job whose pick was refused
RefusedTask(j) == task[j].pc = "fail" /\ ~task[j].resume /\ task[j].acc = NULL

\* this step leaves active_generations of every account as it was
SameActive ==
    /\ DOMAIN accounts' = DOMAIN accounts
    /\ \A a \in DOMAIN accounts :
          accounts'[a].active_generations = accounts[a].active_generations

\* C35: when the pick of a claimed fresh job is refused, the same step
\* stores the job as failed with account_id and task_id null, hands the task
\* to the failure handler without an account, auth or queued event having
\* been handled (no account is held, nothing is to be released), sends
\* nothing upstream and leaves every account's active_generations alone;
\* and so do the steps of the task that follow, after which the row stays
\* failed with both fields null.
C35_PickRefused ==
    [][\A j \in JobIds :
          /\ (task[j].pc = "new" /\ ~task[j].resume /\ task'[j].pc = "fail") =>
                /\ RefusedTask(j)'
                /\ ~task'[j].gen /\ task'[j].tid = NULL
                /\ jobs'[j].status = "failed"
                /\ jobs'[j].account_id = NULL /\ jobs'[j].task_id = NULL
                /\ upstream' = upstream
                /\ SameActive
          /\ RefusedTask(j) =>
                /\ jobs'[j].status = "failed"
                /\ jobs'[j].account_id = NULL /\ jobs'[j].task_id = NULL
                /\ upstream'[j] = upstream[j]
                /\ task'[j].pc \in {"fail", "idle"}
                /\ OwnStep(j) => SameActive
          /\ (task[j].pc = "idle" /\ jobs[j].status = "failed"
                  /\ jobs[j].account_id = NULL) =>
                (jobs'[j].status = "failed" /\ jobs'[j].account_id = NULL
                    /\ jobs'[j].task_id = jobs[j].task_id)]_vars

\* C35: the task of a job whose pick was refused because the only account
\* has no free slot has ended: the job is failed with both fields null
\* while the other job still holds the account
C35_Reached ==
    \E j \in JobIds, k \in JobIds :
       /\ j # k
       /\ jobs[j].status = "failed" /\ jobs[j].account_id = NULL /\ jobs[j].task_id = NULL
       /\ task[j].pc = "idle"
       /\ task[k].pc = "poll" /\ ~task[k].resume /\ task[k].acc # NULL
       /\ accounts[task[k].acc].active_generations = CONCURRENCY_LIMIT
       /\ \A a \in DOMAIN accounts : a = task[k].acc

\* no job task is in flight and no job is stored as running
Quiescent ==
    /\ inflight = {}
    /\ \A j \in JobIds : task[j].pc = "idle" /\ jobs[j].status # "running"

\* C37 as the specification states it: whenever the system is quiescent,
\* after any sequence of dispatches, completions, failures, shutdowns,
\* crashes and recoveries, active_generations of every account is 0.
C37_AsStated ==
    Quiescent => \A a \in DOMAIN accounts : accounts[a].active_generations = 0

\* the jobs whose generation run is live on account a: the generator has
\* yielded its account event for a (after a pick, or on resume) and no
\* terminal event yet
LiveRuns(a) ==
    {j \in JobIds : task[j].acc = a
                     /\ task[j].pc \in {"auth", "upload", "create", "queued", "poll"}}

\* C38 as the specification states it: in every reachable state
\* active_generations of an account is at least the number of live runs,
\* fresh or resumed, on that account, and so no more than CONCURRENCY_LIMIT
\* runs are live on one account.
C38_AsStated ==
    \A a \in DOMAIN accounts :
       /\ accounts[a].active_generations >= Cardinality(LiveRuns(a))
       /\ Cardinality(LiveRuns(a)) <= CONCURRENCY_LIMIT

\* C39: a job that is stored as running when shutdown() cancels its task is
\* stored as running, with the task_id and account_id it had, through the
\* unwinding of the task and for as long as the queue is stopped; the next
\* start() resumes it when both fields are set (the row is left as it is
\* and a resuming task is started for it) and requeues it otherwise.
C39_CancelledStaysRunning ==
    [][\A j \in JobIds :
          /\ (proc = "stopping" /\ j \in stop.tasks /\ jobs[j].status = "running"
                 /\ proc' # "down") =>
                (jobs'[j] = jobs[j] /\ task'[j].pc \in {task[j].pc, "idle"})
          /\ (proc \in {"stopping", "stopped"} /\ task[j].pc = "idle"
                 /\ jobs[j].status = "running") =>
                \/ proc' # "up" /\ jobs'[j] = jobs[j] /\ task'[j].pc = "idle"
                \/ /\ proc' = "up"
                   /\ IF jobs[j].task_id # NULL /\ jobs[j].account_id # NULL
                      THEN /\ jobs'[j] = jobs[j]
                           /\ j \in inflight'
                           /\ task'[j].pc = "new" /\ task'[j].resume
                      ELSE /\ jobs'[j].status = "queued"
                           /\ j \notin inflight']_vars

\* C39: shutdown() has returned after cancelling two job tasks, one in its
\* poll loop and one before its creation request: both jobs are stored as
\* running, one with a task_id and one without
C39_Reached ==
    /\ proc = "stopped"
    /\ \E j, k \in JobIds :
          /\ jobs[j].status = "running" /\ jobs[j].task_id # NULL
          /\ jobs[k].status = "running" /\ jobs[k].task_id = NULL
          /\ task[j].pc = "idle" /\ task[k].pc = "idle"

\* C40: in every state a job whose task_id is set has its account_id set;
\* task_id is stored only in rows that have an account_id, account_id is
\* cleared only together with task_id, and start() requeues only jobs that
\* have no task_id.
C40_TaskIdImpliesAccountId ==
    /\ [](\A j \in JobIds : jobs[j].task_id # NULL => jobs[j].account_id # NULL)
    /\ [][\A j \in JobIds :
            /\ (jobs[j].task_id = NULL /\ jobs'[j].task_id # NULL) =>
                  (jobs[j].account_id # NULL /\ jobs'[j].account_id = jobs[j].account_id)
            /\ (jobs[j].account_id # NULL /\ jobs'[j].account_id = NULL) =>
                  jobs'[j].task_id = NULL
            /\ (jobs[j].status = "running" /\ jobs'[j].status = "queued") =>
                  jobs[j].task_id = NULL]_vars

\* C40: after a crash start() has requeued a job that had an account_id and
\* no task_id, and resumes the other job, which has both
C40_Reached ==
    \E j, k \in JobIds :
       /\ proc = "up"
       /\ jobs[j].status = "running" /\ jobs[j].task_id # NULL /\ jobs[j].account_id # NULL
       /\ task[j].resume /\ task[j].pc = "new"
       /\ jobs[k].status = "queued" /\ jobs[k].account_id = NULL /\ rel[k] = 0
       /\ \E a \in DOMAIN accounts : accounts[a].active_generations > 0

(***************************************************************************)
(* CanonSpec: one cookie export and a copy of it that is edited entry by   *)
(* entry (entries reordered, the case of a domain or a path changed, other *)
(* fields added or removed); add_account then derives the fallback account *)
(* key of both                                                             *)
(***************************************************************************)
ExportCookies ==
    [name : CookieNames, value : {1, 2}, domain : {"X", "x"}, path : {"/A", "/a"},
     other : BOOLEAN]
ExportFiles == UNION {[1..n -> ExportCookies] : n \in 1..MaxCookies}

\* the same string in the other letter case
SwapCase(d) ==
    IF d = "X" THEN "x" ELSE IF d = "x" THEN "X"
    ELSE IF d = "/A" THEN "/a" ELSE IF d = "/a" THEN "/A" ELSE d

CanonInit ==
    /\ accounts = [a \in {} |-> NewAccountRow]
    /\ today = 1
    /\ picker = [p \in Pickers |-> IdlePicker]
    /\ lastPick = PickReturn(NULL, "")
    /\ reserved = [a \in AccountIds |-> 0]
    /\ exhausted = [a \in AccountIds |-> FALSE]
    /\ QueueIdle
    /\ max_workers = 1
    /\ credentials = [a \in {} |-> NoCredential]
    /\ added = NoAdd
    /\ run = IdleRun /\ events = << >> /\ wait = IdleWait /\ stop = NoShutdown
    /\ session = NewSession
    /\ export \in {[first |-> f, now |-> f, keys |-> << >>] : f \in ExportFiles}

ExportFrame ==
    UNCHANGED <<accounts, today, poolVars, queueVars, adminVars, run, events, wait, stop,
                session>>

\* entries i and i + 1 of the copy change places
Reorder(i) ==
    /\ export.keys = << >>
    /\ i \in 1..(Len(export.now) - 1)
    /\ export' = [export EXCEPT !.now = [@ EXCEPT ![i] = export.now[i + 1],
                                                 ![i + 1] = export.now[i]]]
    /\ ExportFrame

\* the domain, or the path, of entry i of the copy changes its letter case
ChangeCase(i, field) ==
    /\ export.keys = << >>
    /\ i \in 1..Len(export.now)
    /\ export' = IF field = "domain"
                 THEN [export EXCEPT !.now[i].domain = SwapCase(@)]
                 ELSE [export EXCEPT !.now[i].path = SwapCase(@)]
    /\ ExportFrame

\* entry i of the copy gets, or loses, its fields other than name, value,
\* domain and path
ChangeFields(i) ==
    /\ export.keys = << >>
    /\ i \in 1..Len(export.now)
    /\ export' = [export EXCEPT !.now[i].other = ~@]
    /\ ExportFrame

\* add_account derives the account key of the export and of the copy, the
\* token naming no stable identifier
FallbackKeys ==
    /\ export.keys = << >>
    /\ export.first # << >>
    /\ export' = [export EXCEPT !.keys = <<DeriveKey(export.first, 0),
                                            DeriveKey(export.now, 0)>>]
    /\ ExportFrame

CanonNext ==
    \/ \E i \in 1..MaxCookies : Reorder(i)
    \/ \E i \in 1..MaxCookies, field \in {"domain", "path"} : ChangeCase(i, field)
    \/ \E i \in 1..MaxCookies : ChangeFields(i)
    \/ FallbackKeys

CanonSpec == CanonInit /\ [][CanonNext]_vars

\* C36 as the specification states it: a cookie list and any list got from
\* it by reordering entries, changing the letter case of domains and paths,
\* and adding or removing other fields have the same canonical form and so
\* the same fallback account key.
C36_AsStated ==
    export.keys # << >> =>
       /\ Canonical(export.first) = Canonical(export.now)
       /\ export.keys[1] = export.keys[2]

====
